---------------------------- MODULE Spec2Model ----------------------------
(***************************************************************************)
(* Model of the ml-service analytical core of mediconnect-pro:             *)
(*   app/ml/risk_predictor.py   condition scorers and the aggregator       *)
(*   app/ml/vitals_analyzer.py  VitalsAnalyzer and AnomalyDetector         *)
(*   app/config.py              risk thresholds                            *)
(*   app/api/v1/*.py            the module-level instances and the routes  *)
(*                                                                         *)
(* Spec runs one operation at a time on enumerated inputs.  SpecShared     *)
(* serves up to MaxRequests requests at once against the module-level      *)
(* instances; a route handler has no await, so it is one step.             *)
(*                                                                         *)
(* Numbers.  Scores, confidences and impacts are fractions of 1.  They are *)
(* kept as exact integers in units of 1/One (One = 3000), the smallest     *)
(* unit in which every contribution (0.1, 0.15, 0.2, 0.25, 0.3, 0.4), the  *)
(* weights 0.4/0.3/0.3, the mean of the three confidences and the impact   *)
(* quotients /15, /30, /50, /100 of integer features are whole numbers.    *)
(* Arithmetic is exact; binary floating-point rounding is not modelled.    *)
(*                                                                         *)
(* Python values.  A dict is a function whose DOMAIN is the set of keys    *)
(* present.  A slot that may hold None is a set: {} is None, {v} is v.     *)
(***************************************************************************)
EXTENDS Integers, Sequences, FiniteSets, TLC

VARIABLES op,    \* the operation that ran last ("idle" when its result was consumed)
          args,  \* its arguments
          ret,   \* what it returned, or the exception it raised
          instances,  \* the fields of the module-level predictors and analyzers
          requests    \* the requests being served at the same time

vars == <<op, args, ret, instances, requests>>

-----------------------------------------------------------------------------
(* Units and bounds *)

One == 30 * 100

\* n/d as a fraction of 1, in units of 1/One
Frac(n, d) == (n * One) \div d

\* bounds of the explored inputs
MaxVitals == 2      \* longest vitals list handed to the aggregator
MaxSeries == 3      \* longest series handed to detect_sudden_changes
MaxReadings == 4    \* most readings handed to analyze_trend
MaxTrend == 5       \* longest series handed to _determine_trend
MaxAnomalies == 6   \* longest anomaly list handed to _assess_vital_risk
MaxRows == 18       \* most rows handed to _detect_anomalies
MaxForecast == 9    \* longest series handed to _generate_forecast
MaxPeriods == 3     \* most periods asked of _generate_forecast
MaxRequests == 2    \* most requests served at the same time

-----------------------------------------------------------------------------
(* Python values *)

None == {}
Some(v) == {v}
Val(x) == CHOOSE v \in x : TRUE

\* dict.get(key, default) and dict.get(key)
Get(d, k, default) == IF k \in DOMAIN d THEN d[k] ELSE Some(default)
GetOrNone(d, k) == IF k \in DOMAIN d THEN d[k] ELSE None

\* truth value of a slot holding None or a bool
Truthy(x) == x = Some(TRUE)

Min(a, b) == IF a < b THEN a ELSE b

\* an exception leaving the call
Raise(e) == [raised |-> TRUE, exc |-> e]

\* RiskFactor(factor=..., impact=...): pydantic rejects an impact outside [0,1]
RiskFactor(name, imp) == [factor |-> name, impact |-> imp]
RiskFactorValid(f) == 0 <= f.impact /\ f.impact <= One

-----------------------------------------------------------------------------
(* app/config.py: Settings *)

risk_low_threshold    == Frac(3, 10)
risk_medium_threshold == Frac(6, 10)
risk_high_threshold   == Frac(8, 10)

-----------------------------------------------------------------------------
(* RiskPredictor.determine_risk_level *)

determine_risk_level_le(risk_score) ==
    IF risk_score <= risk_low_threshold THEN "low"
    ELSE IF risk_score <= risk_medium_threshold THEN "medium"
    ELSE IF risk_score <= risk_high_threshold THEN "high"
    ELSE "critical"

determine_risk_level(risk_score) ==
    IF risk_score < risk_low_threshold THEN "low"
    ELSE IF risk_score < risk_medium_threshold THEN "medium"
    ELSE IF risk_score < risk_high_threshold THEN "high"
    ELSE "critical"

-----------------------------------------------------------------------------
(* HeartDiseasePredictor *)

\* a comparison `x > n` with x = None raises TypeError
Heart_raises(data) ==
    \/ Get(data, "age", 50) = None
    \/ Get(data, "restingBP", 120) = None
    \/ Get(data, "cholesterol", 200) = None

Heart_sum_no_angina(data) ==
    LET age == Val(Get(data, "age", 50))
        bp == Val(Get(data, "restingBP", 120))
        cholesterol == Val(Get(data, "cholesterol", 200))
    IN    (IF age > 65 THEN Frac(30, 100)
           ELSE IF age > 55 THEN Frac(20, 100)
           ELSE IF age > 45 THEN Frac(10, 100) ELSE 0)
        + (IF bp > 140 THEN Frac(25, 100)
           ELSE IF bp > 130 THEN Frac(15, 100) ELSE 0)
        + (IF cholesterol > 240 THEN Frac(20, 100)
           ELSE IF cholesterol > 200 THEN Frac(10, 100) ELSE 0)
        + (IF Truthy(GetOrNone(data, "fastingBloodSugar")) THEN Frac(15, 100) ELSE 0)

Heart_sum(data) ==
    LET age == Val(Get(data, "age", 50))
        bp == Val(Get(data, "restingBP", 120))
        cholesterol == Val(Get(data, "cholesterol", 200))
    IN    (IF age > 65 THEN Frac(30, 100)
           ELSE IF age > 55 THEN Frac(20, 100)
           ELSE IF age > 45 THEN Frac(10, 100) ELSE 0)
        + (IF bp > 140 THEN Frac(25, 100)
           ELSE IF bp > 130 THEN Frac(15, 100) ELSE 0)
        + (IF cholesterol > 240 THEN Frac(20, 100)
           ELSE IF cholesterol > 200 THEN Frac(10, 100) ELSE 0)
        + (IF Truthy(GetOrNone(data, "fastingBloodSugar")) THEN Frac(15, 100) ELSE 0)
        + (IF Truthy(GetOrNone(data, "exerciseInducedAngina")) THEN Frac(20, 100) ELSE 0)

Heart_calculate_risk_score_uncapped(data) == Heart_sum(data)

Heart_calculate_risk_score(data) == Min(Heart_sum(data), One)

Heart_identify_risk_factors(data, risk_score) ==
    LET age == Val(Get(data, "age", 50))
        bp == Val(Get(data, "restingBP", 120))
        cholesterol == Val(Get(data, "cholesterol", 200))
    IN    (IF age > 55
           THEN <<RiskFactor("Age", Min(Frac(age - 55, 30), Frac(30, 100)))>>
           ELSE <<>>)
       \o (IF bp > 130
           THEN <<RiskFactor("High Blood Pressure", Min(Frac(bp - 130, 50), Frac(30, 100)))>>
           ELSE <<>>)
       \o (IF cholesterol > 200
           THEN <<RiskFactor("High Cholesterol", Min(Frac(cholesterol - 200, 100), Frac(25, 100)))>>
           ELSE <<>>)
       \o (IF Truthy(GetOrNone(data, "exerciseInducedAngina"))
           THEN <<RiskFactor("Exercise-Induced Angina", Frac(20, 100))>>
           ELSE <<>>)

Heart_confidence == Frac(85, 100)

\* the result of a scorer: (risk_score, confidence, risk_factors), or the
\* exception raised by a comparison or by RiskFactor's validation
Scored(score, conf, factors) ==
    IF \E i \in 1..Len(factors) : ~RiskFactorValid(factors[i])
    THEN Raise("ValidationError")
    ELSE [raised |-> FALSE, score |-> score, confidence |-> conf, factors |-> factors]

Heart_predict(data) ==
    IF Heart_raises(data) THEN Raise("TypeError")
    ELSE LET risk_score == Heart_calculate_risk_score(data)
         IN  Scored(risk_score, Heart_confidence, Heart_identify_risk_factors(data, risk_score))

-----------------------------------------------------------------------------
(* DiabetesPredictor *)

Diabetes_raises(data) ==
    \/ Get(data, "bmi", 25) = None
    \/ Get(data, "glucoseLevel", 100) = None
    \/ Get(data, "bloodPressure", 80) = None
    \/ Get(data, "age", 40) = None

Diabetes_sum(data) ==
    LET bmi == Val(Get(data, "bmi", 25))
        glucose == Val(Get(data, "glucoseLevel", 100))
        bp == Val(Get(data, "bloodPressure", 80))
        age == Val(Get(data, "age", 40))
    IN    (IF bmi > 30 THEN Frac(30, 100)
           ELSE IF bmi > 25 THEN Frac(15, 100) ELSE 0)
        + (IF glucose > 126 THEN Frac(40, 100)
           ELSE IF glucose > 100 THEN Frac(20, 100) ELSE 0)
        + (IF bp > 90 THEN Frac(15, 100) ELSE 0)
        + (IF age > 45 THEN Frac(15, 100) ELSE 0)

Diabetes_calculate_risk_score(data) == Min(Diabetes_sum(data), One)

Diabetes_identify_risk_factors(data, risk_score) ==
    LET bmi == Val(Get(data, "bmi", 25))
        glucose == Val(Get(data, "glucoseLevel", 100))
    IN    (IF bmi > 25
           THEN <<RiskFactor("Elevated BMI", Min(Frac(bmi - 25, 15), Frac(30, 100)))>>
           ELSE <<>>)
       \o (IF glucose > 100
           THEN <<RiskFactor("Elevated Glucose", Min(Frac(glucose - 100, 100), Frac(40, 100)))>>
           ELSE <<>>)

Diabetes_confidence == Frac(82, 100)

Diabetes_predict(data) ==
    IF Diabetes_raises(data) THEN Raise("TypeError")
    ELSE LET risk_score == Diabetes_calculate_risk_score(data)
         IN  Scored(risk_score, Diabetes_confidence,
                    Diabetes_identify_risk_factors(data, risk_score))

-----------------------------------------------------------------------------
(* StrokePredictor *)

Stroke_raises(data) ==
    \/ Get(data, "age", 50) = None
    \/ Get(data, "avgGlucoseLevel", 100) = None
    \/ Get(data, "bmi", 25) = None

\* data.get("smokingStatus") in ["formerly smoked", "smokes"]
Smokes(data) == GetOrNone(data, "smokingStatus") \in {Some("formerly smoked"), Some("smokes")}

Stroke_sum(data) ==
    LET age == Val(Get(data, "age", 50))
        glucose == Val(Get(data, "avgGlucoseLevel", 100))
        bmi == Val(Get(data, "bmi", 25))
    IN    (IF age > 65 THEN Frac(30, 100)
           ELSE IF age > 55 THEN Frac(15, 100) ELSE 0)
        + (IF Truthy(GetOrNone(data, "hypertension")) THEN Frac(25, 100) ELSE 0)
        + (IF Truthy(GetOrNone(data, "heartDisease")) THEN Frac(25, 100) ELSE 0)
        + (IF glucose > 125 THEN Frac(15, 100) ELSE 0)
        + (IF bmi > 30 THEN Frac(10, 100) ELSE 0)
        + (IF Smokes(data) THEN Frac(15, 100) ELSE 0)

Stroke_calculate_risk_score(data) == Min(Stroke_sum(data), One)

Stroke_identify_risk_factors_no_smoking(data, risk_score) ==
       (IF Truthy(GetOrNone(data, "hypertension"))
        THEN <<RiskFactor("Hypertension", Frac(25, 100))>> ELSE <<>>)
    \o (IF Truthy(GetOrNone(data, "heartDisease"))
        THEN <<RiskFactor("Heart Disease", Frac(25, 100))>> ELSE <<>>)

Stroke_identify_risk_factors(data, risk_score) ==
       (IF Truthy(GetOrNone(data, "hypertension"))
        THEN <<RiskFactor("Hypertension", Frac(25, 100))>> ELSE <<>>)
    \o (IF Truthy(GetOrNone(data, "heartDisease"))
        THEN <<RiskFactor("Heart Disease", Frac(25, 100))>> ELSE <<>>)
    \o (IF Smokes(data)
        THEN <<RiskFactor("Smoking", Frac(15, 100))>> ELSE <<>>)

Stroke_confidence == Frac(80, 100)

Stroke_predict(data) ==
    IF Stroke_raises(data) THEN Raise("TypeError")
    ELSE LET risk_score == Stroke_calculate_risk_score(data)
         IN  Scored(risk_score, Stroke_confidence,
                    Stroke_identify_risk_factors(data, risk_score))

-----------------------------------------------------------------------------
(* GeneralRiskPredictor *)

\* x in lst
InList(x, lst) == \E i \in 1..Len(lst) : lst[i] = x

\* _get_latest_vital: the first reading of the list whose type matches
get_latest_vital(vitals_data, vital_type, default) ==
    LET hits == {i \in 1..Len(vitals_data) :
                    GetOrNone(vitals_data[i], "type") = Some(vital_type)}
    IN  IF hits = {} THEN default
        ELSE LET first == CHOOSE i \in hits : \A j \in hits : i <= j
             IN  Val(Get(vitals_data[first], "value", default))

\* the feature dict _assess_heart_risk hands to the heart scorer
assess_heart_data_fasting(patient_data, vitals_data) ==
    [age |-> Get(patient_data, "age", 50),
     gender |-> Get(patient_data, "gender", "male"),
     restingBP |-> Some(get_latest_vital(vitals_data, "bloodPressure", 120)),
     cholesterol |-> Some(200),
     fastingBloodSugar |-> Some(TRUE),
     maxHeartRate |-> Some(get_latest_vital(vitals_data, "heartRate", 150))]

assess_heart_data(patient_data, vitals_data) ==
    [age |-> Get(patient_data, "age", 50),
     gender |-> Get(patient_data, "gender", "male"),
     restingBP |-> Some(get_latest_vital(vitals_data, "bloodPressure", 120)),
     cholesterol |-> Some(200),
     fastingBloodSugar |-> Some(FALSE),
     maxHeartRate |-> Some(get_latest_vital(vitals_data, "heartRate", 150))]

assess_heart_risk(patient_data, vitals_data) ==
    Heart_predict(assess_heart_data(patient_data, vitals_data))

assess_diabetes_data(patient_data, vitals_data) ==
    [age |-> Get(patient_data, "age", 40),
     gender |-> Get(patient_data, "gender", "male"),
     bmi |-> Get(patient_data, "bmi", 25),
     glucoseLevel |-> Some(get_latest_vital(vitals_data, "bloodGlucose", 100)),
     bloodPressure |-> Some(get_latest_vital(vitals_data, "bloodPressure", 80))]

assess_diabetes_risk(patient_data, vitals_data) ==
    Diabetes_predict(assess_diabetes_data(patient_data, vitals_data))

\* `"hypertension" in None` raises TypeError while the dict is being built
assess_stroke_raises(patient_data) ==
    Get(patient_data, "chronicConditions", <<>>) = None

assess_stroke_data(patient_data, vitals_data) ==
    LET conditions == Val(Get(patient_data, "chronicConditions", <<>>))
    IN  [age |-> Get(patient_data, "age", 50),
         gender |-> Get(patient_data, "gender", "male"),
         hypertension |-> Some(InList("hypertension", conditions)),
         heartDisease |-> Some(InList("heart disease", conditions)),
         avgGlucoseLevel |-> Some(get_latest_vital(vitals_data, "bloodGlucose", 100)),
         bmi |-> Get(patient_data, "bmi", 25),
         smokingStatus |-> Get(patient_data, "smokingStatus", "never smoked")]

assess_stroke_risk(patient_data, vitals_data) ==
    IF assess_stroke_raises(patient_data) THEN Raise("TypeError")
    ELSE Stroke_predict(assess_stroke_data(patient_data, vitals_data))

overall_risk_of_swapped(heart_risk, diabetes_risk, stroke_risk) ==
    (heart_risk * Frac(3, 10) + diabetes_risk * Frac(4, 10) + stroke_risk * Frac(3, 10))
        \div One

\* overall_risk = heart_risk * 0.4 + diabetes_risk * 0.3 + stroke_risk * 0.3
overall_risk_of(heart_risk, diabetes_risk, stroke_risk) ==
    (heart_risk * Frac(4, 10) + diabetes_risk * Frac(3, 10) + stroke_risk * Frac(3, 10))
        \div One

\* overall_confidence = (heart_conf + diabetes_conf + stroke_conf) / 3
overall_confidence_of(heart_conf, diabetes_conf, stroke_conf) ==
    (heart_conf + diabetes_conf + stroke_conf) \div 3

identify_primary_concerns_ge(heart_risk, diabetes_risk, stroke_risk) ==
    LET concerns ==
               (IF heart_risk >= Frac(6, 10)
                THEN <<"Elevated cardiovascular disease risk">> ELSE <<>>)
            \o (IF diabetes_risk >= Frac(6, 10)
                THEN <<"High diabetes risk">> ELSE <<>>)
            \o (IF stroke_risk >= Frac(6, 10)
                THEN <<"Increased stroke risk">> ELSE <<>>)
    IN  IF concerns = <<>> THEN <<"Overall health status is good">> ELSE concerns

identify_primary_concerns(heart_risk, diabetes_risk, stroke_risk) ==
    LET concerns ==
               (IF heart_risk > Frac(6, 10)
                THEN <<"Elevated cardiovascular disease risk">> ELSE <<>>)
            \o (IF diabetes_risk > Frac(6, 10)
                THEN <<"High diabetes risk">> ELSE <<>>)
            \o (IF stroke_risk > Frac(6, 10)
                THEN <<"Increased stroke risk">> ELSE <<>>)
    IN  IF concerns = <<>> THEN <<"Overall health status is good">> ELSE concerns

generate_recommendations_from_medium(risk_level, heart, diabetes, stroke) ==
       (IF risk_level \in {"medium", "high", "critical"} THEN <<"Immediate Action">> ELSE <<>>)
    \o (IF heart > Frac(5, 10) THEN <<"Cardiovascular Health">> ELSE <<>>)
    \o (IF diabetes > Frac(5, 10) THEN <<"Metabolic Health">> ELSE <<>>)

generate_recommendations_elif(risk_level, heart, diabetes, stroke) ==
    IF risk_level \in {"high", "critical"} THEN <<"Immediate Action">>
    ELSE   (IF heart > Frac(5, 10) THEN <<"Cardiovascular Health">> ELSE <<>>)
        \o (IF diabetes > Frac(5, 10) THEN <<"Metabolic Health">> ELSE <<>>)

\* the recommendations are listed by their category
generate_recommendations(risk_level, heart, diabetes, stroke) ==
       (IF risk_level \in {"high", "critical"} THEN <<"Immediate Action">> ELSE <<>>)
    \o (IF heart > Frac(5, 10) THEN <<"Cardiovascular Health">> ELSE <<>>)
    \o (IF diabetes > Frac(5, 10) THEN <<"Metabolic Health">> ELSE <<>>)

combine_risks_heart_concerns(h, d, s) ==
    LET overall_risk == overall_risk_of(h.score, d.score, s.score)
        risk_level == determine_risk_level(overall_risk)
    IN  [raised |-> FALSE,
         riskLevel |-> risk_level,
         riskScore |-> overall_risk,
         confidence |-> overall_confidence_of(h.confidence, d.confidence, s.confidence),
         riskFactors |-> h.factors \o d.factors \o s.factors,
         primaryConcerns |-> identify_primary_concerns(h.score, h.score, h.score),
         recommendations |-> generate_recommendations(risk_level, h.score, d.score, s.score)]

\* lines 372-396: combine the three condition results
combine_risks(h, d, s) ==
    LET overall_risk == overall_risk_of(h.score, d.score, s.score)
        risk_level == determine_risk_level(overall_risk)
    IN  [raised |-> FALSE,
         riskLevel |-> risk_level,
         riskScore |-> overall_risk,
         confidence |-> overall_confidence_of(h.confidence, d.confidence, s.confidence),
         riskFactors |-> h.factors \o d.factors \o s.factors,
         primaryConcerns |-> identify_primary_concerns(h.score, d.score, s.score),
         recommendations |-> generate_recommendations(risk_level, h.score, d.score, s.score)]

predict_comprehensive_risk(patient_data, vitals_data) ==
    LET h == assess_heart_risk(patient_data, vitals_data)
        d == assess_diabetes_risk(patient_data, vitals_data)
        s == assess_stroke_risk(patient_data, vitals_data)
    IN  IF h.raised THEN h
        ELSE IF d.raised THEN d
        ELSE IF s.raised THEN s
        ELSE combine_risks(h, d, s)

-----------------------------------------------------------------------------
(* AnomalyDetector.detect_sudden_changes *)

Abs(x) == IF x < 0 THEN -x ELSE x

\* pct_change = abs(values[i] - values[i-1]) / values[i-1] on numpy floats is
\* kept as the exact quotient <<numerator, denominator>>.  A zero denominator
\* is numpy's result of a division by zero: inf for a non-zero numerator,
\* nan for 0/0 (a warning, no exception).
pct_change_of(cur, prev) == <<Abs(cur - prev), prev>>

IsFinite(q) == q[2] /= 0

\* q > t/One for a threshold t in units of 1/One; nan compares false with
\* everything and inf is above every finite threshold
QuotientGt(q, t) ==
    IF q[2] > 0 THEN q[1] * One > t * q[2]
    ELSE IF q[2] < 0 THEN q[1] * One < t * q[2]
    ELSE q[1] /= 0

RECURSIVE sudden_changes_from(_, _, _, _)
sudden_changes_from(i, values, timestamps, threshold) ==
    IF i > Len(values) THEN <<>>
    ELSE LET pct_change == pct_change_of(values[i], values[i - 1])
             entry == [timestamp |-> timestamps[i],
                       previous_value |-> values[i - 1],
                       current_value |-> values[i],
                       change_percent |-> <<pct_change[1] * 100, pct_change[2]>>,
                       severity |-> IF QuotientGt(pct_change, Frac(3, 10))
                                    THEN "high" ELSE "medium"]
         IN  (IF QuotientGt(pct_change, threshold) THEN <<entry>> ELSE <<>>)
             \o sudden_changes_from(i + 1, values, timestamps, threshold)

detect_sudden_changes(values, timestamps, threshold) ==
    sudden_changes_from(2, values, timestamps, threshold)

-----------------------------------------------------------------------------
(* VitalsAnalyzer: numeric summaries                                       *)
(*                                                                         *)
(* Readings are integers.  Every statistic is kept exact, as a quotient    *)
(* <<numerator, denominator>> with a positive denominator; the standard    *)
(* deviation is kept by its square, the variance.                          *)

RECURSIVE SumSeq(_)
SumSeq(s) == IF s = <<>> THEN 0 ELSE s[1] + SumSeq(Tail(s))

RECURSIVE InsertSorted(_, _)
InsertSorted(x, s) ==
    IF s = <<>> THEN <<x>>
    ELSE IF x <= s[1] THEN <<x>> \o s
    ELSE <<s[1]>> \o InsertSorted(x, Tail(s))

RECURSIVE np_sort(_)
np_sort(s) == IF s = <<>> THEN <<>> ELSE InsertSorted(s[1], np_sort(Tail(s)))

\* comparisons of quotients with positive denominators
QLt(a, b) == a[1] * b[2] < b[1] * a[2]
QLe(a, b) == a[1] * b[2] <= b[1] * a[2]
QEq(a, b) == a[1] * b[2] = b[1] * a[2]

\* np.mean(values)
np_mean(values) == <<SumSeq(values), Len(values)>>

\* sum of the squared deviations from the mean, times Len(values)^2
SqDevSum(values) ==
    LET n == Len(values)
        total == SumSeq(values)
    IN  SumSeq([i \in 1..n |-> (n * values[i] - total) * (n * values[i] - total)])

\* np.var(values): the population variance; np.std(values) is its square root
np_var(values) == <<SqDevSum(values), Len(values) * Len(values) * Len(values)>>

\* np.percentile(values, q) for q = 25 * quarter, linear interpolation between
\* the order statistics at position (n - 1) * q / 100
np_percentile(values, quarter) ==
    LET sorted == np_sort(values)
        pos == (Len(values) - 1) * quarter
        lo == pos \div 4 + 1
        rem == pos % 4
    IN  IF rem = 0 THEN <<sorted[lo], 1>>
        ELSE <<4 * sorted[lo] + rem * (sorted[lo + 1] - sorted[lo]), 4>>

np_median_undivided(values) ==
    LET sorted == np_sort(values)
        n == Len(values)
    IN  IF n % 2 = 1 THEN <<sorted[(n + 1) \div 2], 1>>
        ELSE <<sorted[n \div 2] + sorted[n \div 2 + 1], 1>>

\* np.median(values): the middle order statistic, or the mean of the two
np_median(values) ==
    LET sorted == np_sort(values)
        n == Len(values)
    IN  IF n % 2 = 1 THEN <<sorted[(n + 1) \div 2], 1>>
        ELSE <<sorted[n \div 2] + sorted[n \div 2 + 1], 2>>

\* _calculate_statistics; coefficient_of_variation = std / mean * 100 is kept
\* by its square, and is 0 when the mean is 0
\* np.min of an empty array raises ValueError
calculate_statistics(values) ==
    IF values = <<>> THEN Raise("ValueError") ELSE
    LET mean == np_mean(values)
        var == np_var(values)
        sorted == np_sort(values)
    IN  [mean |-> mean,
         median |-> np_median(values),
         std_squared |-> var,
         min |-> <<sorted[1], 1>>,
         max |-> <<sorted[Len(values)], 1>>,
         q25 |-> np_percentile(values, 1),
         q75 |-> np_percentile(values, 3),
         count |-> Len(values),
         variance |-> var,
         coefficient_of_variation_squared |->
            IF mean[1] /= 0
            THEN <<var[1] * 10000, Len(values) * mean[1] * mean[1]>>
            ELSE <<0, 1>>]

-----------------------------------------------------------------------------
(* VitalsAnalyzer: trend, anomalies, forecast *)

\* stats.linregress(np.arange(n), values): the sums of squares and products
\* about the means, each times n
Sxx(values) ==
    LET n == Len(values)
        xs == [i \in 1..n |-> i - 1]
    IN  n * SumSeq([i \in 1..n |-> xs[i] * xs[i]]) - SumSeq(xs) * SumSeq(xs)

Sxy(values) ==
    LET n == Len(values)
        xs == [i \in 1..n |-> i - 1]
    IN  n * SumSeq([i \in 1..n |-> xs[i] * values[i]]) - SumSeq(xs) * SumSeq(values)

Syy(values) ==
    LET n == Len(values)
    IN  n * SumSeq([i \in 1..n |-> values[i] * values[i]]) - SumSeq(values) * SumSeq(values)

\* slope of the least-squares line
linregress_slope(values) == <<Sxy(values), Sxx(values)>>

\* square of the two-sided 5% critical value of Student's t with df degrees
\* of freedom, in hundredths (12.706^2, 4.303^2, 3.182^2, ...)
TCritSquared100(df) ==
    CASE df = 1 -> 16145
      [] df = 2 -> 1851
      [] df = 3 -> 1013
      [] df = 4 -> 771
      [] df = 5 -> 661
      [] df = 6 -> 599
      [] OTHER -> 559

\* p_value > 0.05 for the slope: r = 0 (p = 1) when either sum of squares is
\* 0; otherwise t^2 = df * r^2 / (1 - r^2) is below the critical value
linregress_p_above_005(values) ==
    LET df == Len(values) - 2
        sxx == Sxx(values)
        sxy == Sxy(values)
        syy == Syy(values)
    IN  IF sxx * syy = 0 THEN TRUE
        ELSE 100 * df * sxy * sxy < TCritSquared100(df) * (sxx * syy - sxy * sxy)

determine_trend_no_significance(values, timestamps) ==
    IF Len(values) < 3 THEN "insufficient_data"
    ELSE IF Sxy(values) > 0 THEN "increasing"
    ELSE IF Sxy(values) < 0 THEN "decreasing"
    ELSE "stable"

\* _determine_trend
determine_trend(values, timestamps) ==
    IF Len(values) < 3 THEN "insufficient_data"
    ELSE IF linregress_p_above_005(values) THEN "stable"
    ELSE IF Sxy(values) > 0 THEN "increasing"
    ELSE IF Sxy(values) < 0 THEN "decreasing"
    ELSE "stable"

z_squared_standard_error(values) ==
    LET n == Len(values)
        total == SumSeq(values)
        den == SqDevSum(values)
    IN  [i \in 1..n |->
            <<n * n * (n * values[i] - total) * (n * values[i] - total), den>>]

\* z_scores^2: (value - mean)^2 / variance for every reading; 0/0 is nan
z_squared(values) ==
    LET n == Len(values)
        total == SumSeq(values)
        den == SqDevSum(values)
    IN  [i \in 1..n |-> <<n * (n * values[i] - total) * (n * values[i] - total), den>>]

ZGt_nan_above(zsq, k) == zsq[2] = 0 \/ zsq[1] > k * k * zsq[2]

\* z_score > k; nan compares false
ZGt(zsq, k) == zsq[2] /= 0 /\ zsq[1] > k * k * zsq[2]

\* lower_bound = q1 - 1.5 * iqr and upper_bound = q3 + 1.5 * iqr, times 8
lower_bound8(values) ==
    LET q1 == np_percentile(values, 1)
        q3 == np_percentile(values, 3)
    IN  (8 \div q1[2]) * q1[1]
            - 3 * ((4 \div q3[2]) * q3[1] - (4 \div q1[2]) * q1[1])

upper_bound8_wide(values) ==
    LET q1 == np_percentile(values, 1)
        q3 == np_percentile(values, 3)
    IN  (8 \div q3[2]) * q3[1]
            + 6 * ((4 \div q3[2]) * q3[1] - (4 \div q1[2]) * q1[1])

upper_bound8(values) ==
    LET q1 == np_percentile(values, 1)
        q3 == np_percentile(values, 3)
    IN  (8 \div q3[2]) * q3[1]
            + 3 * ((4 \div q3[2]) * q3[1] - (4 \div q1[2]) * q1[1])

\* the loop over the rows, with the z-scores and the bounds computed before it
RECURSIVE anomalies_from(_, _, _, _, _)
anomalies_from(i, df, z_scores, lower8, upper8) ==
    IF i > Len(df) THEN <<>>
    ELSE LET value == Val(df[i].value)
             z == z_scores[i]
             by_z == ZGt(z, 3)
             by_iqr == 8 * value < lower8 \/ 8 * value > upper8
             entry == [timestamp |-> Val(df[i].timestamp),
                       value |-> value,
                       severity |-> IF ZGt(z, 4) THEN "high" ELSE "medium",
                       reason |-> (IF by_z THEN <<"Z-score">> ELSE <<>>)
                                  \o (IF by_iqr THEN <<"Outside IQR bounds">> ELSE <<>>),
                       deviation_squared |-> z]
         IN  (IF by_z \/ by_iqr THEN <<entry>> ELSE <<>>)
             \o anomalies_from(i + 1, df, z_scores, lower8, upper8)

\* the column df["value"].values
ValuesOf(df) == [i \in 1..Len(df) |-> Val(df[i].value)]

\* _detect_anomalies on the rows of the sorted frame
detect_anomalies(df) ==
    LET values == ValuesOf(df)
        z_scores == z_squared(values)
        lower8 == lower_bound8(values)
        upper8 == upper_bound8(values)
    IN  anomalies_from(1, df, z_scores, lower8, upper8)

LastN_head(s, w) == SubSeq(s, 1, w)

\* the last w elements of a sequence
LastN(s, w) == SubSeq(s, Len(s) - w + 1, Len(s))

generate_forecast_lt2(values, periods) ==
    IF Len(values) < 2 THEN <<>>
    ELSE LET window == Min(7, Len(values))
             ma == np_mean(LastN(values, window))
             slope == linregress_slope(values)
         IN  [i \in 1..periods |->
                LET forecast_value == <<ma[1] * slope[2] + slope[1] * i * ma[2],
                                        ma[2] * slope[2]>>
                IN  [period |-> i,
                     value |-> forecast_value,
                     confidence_lower |-> [value |-> forecast_value, sign |-> -1,
                                           std_squared |-> np_var(values)],
                     confidence_upper |-> [value |-> forecast_value, sign |-> 1,
                                           std_squared |-> np_var(values)]]]

\* _generate_forecast: value = ma + slope * i, bounds one std below and above
generate_forecast(values, periods) ==
    IF Len(values) < 3 THEN <<>>
    ELSE LET window == Min(7, Len(values))
             ma == np_mean(LastN(values, window))
             slope == linregress_slope(values)
         IN  [i \in 1..periods |->
                LET forecast_value == <<ma[1] * slope[2] + slope[1] * i * ma[2],
                                        ma[2] * slope[2]>>
                IN  [period |-> i,
                     value |-> forecast_value,
                     confidence_lower |-> [value |-> forecast_value, sign |-> -1,
                                           std_squared |-> np_var(values)],
                     confidence_upper |-> [value |-> forecast_value, sign |-> 1,
                                           std_squared |-> np_var(values)]]]

-----------------------------------------------------------------------------
(* VitalsAnalyzer._assess_vital_risk *)

normal_ranges ==
    [heartRate |-> [min |-> <<60, 1>>, max |-> <<100, 1>>],
     bloodPressureSystolic |-> [min |-> <<90, 1>>, max |-> <<120, 1>>],
     bloodPressureDiastolic |-> [min |-> <<60, 1>>, max |-> <<80, 1>>],
     oxygenSaturation |-> [min |-> <<95, 1>>, max |-> <<100, 1>>],
     temperature |-> [min |-> <<365, 10>>, max |-> <<375, 10>>],
     respiratoryRate |-> [min |-> <<12, 1>>, max |-> <<20, 1>>],
     bloodGlucose |-> [min |-> <<70, 1>>, max |-> <<140, 1>>]]

\* ((a - b) / c) * 100 for quotients a, b, c
PercentOf(a, b, c) ==
    <<(a[1] * b[2] - b[1] * a[2]) * c[2] * 100, a[2] * b[2] * c[1]>>

deviation_level_ge(vital_type, mean_value) ==
    LET normal_range == normal_ranges[vital_type]
        below == PercentOf(normal_range.min, mean_value, normal_range.min)
        above == PercentOf(mean_value, normal_range.max, normal_range.max)
    IN  IF QLt(mean_value, normal_range.min)
        THEN IF QLe(<<20, 1>>, below)
             THEN <<"high", "Average significantly below normal">>
             ELSE IF QLt(<<10, 1>>, below)
             THEN <<"medium", "Average below normal">>
             ELSE <<"low", "Vital signs within normal range">>
        ELSE IF QLt(normal_range.max, mean_value)
        THEN IF QLe(<<20, 1>>, above)
             THEN <<"high", "Average significantly above normal">>
             ELSE IF QLt(<<10, 1>>, above)
             THEN <<"medium", "Average above normal">>
             ELSE <<"low", "Vital signs within normal range">>
        ELSE <<"low", "Vital signs within normal range">>

\* the level and message from the deviation of the mean from the range
deviation_level(vital_type, mean_value) ==
    LET normal_range == normal_ranges[vital_type]
        below == PercentOf(normal_range.min, mean_value, normal_range.min)
        above == PercentOf(mean_value, normal_range.max, normal_range.max)
    IN  IF QLt(mean_value, normal_range.min)
        THEN IF QLt(<<20, 1>>, below)
             THEN <<"high", "Average significantly below normal">>
             ELSE IF QLt(<<10, 1>>, below)
             THEN <<"medium", "Average below normal">>
             ELSE <<"low", "Vital signs within normal range">>
        ELSE IF QLt(normal_range.max, mean_value)
        THEN IF QLt(<<20, 1>>, above)
             THEN <<"high", "Average significantly above normal">>
             ELSE IF QLt(<<10, 1>>, above)
             THEN <<"medium", "Average above normal">>
             ELSE <<"low", "Vital signs within normal range">>
        ELSE <<"low", "Vital signs within normal range">>

\* lines 221-228: raise the level when there are many anomalies
escalate_downgrading(risk_level, n_anomalies) ==
    IF n_anomalies > 5 THEN "high"
    ELSE IF n_anomalies > 2 THEN "medium"
    ELSE risk_level

escalate(risk_level, n_anomalies) ==
    IF n_anomalies > 5 THEN "high"
    ELSE IF n_anomalies > 2 THEN (IF risk_level = "low" THEN "medium" ELSE risk_level)
    ELSE risk_level

QAbs(a) == <<Abs(a[1]), a[2]>>

unknown_vital_result_high ==
    [raised |-> FALSE, riskLevel |-> "high", message |-> <<"Unknown vital type">>]

\* lines 194-195: the result for a vital type without a normal range
unknown_vital_result ==
    [raised |-> FALSE, riskLevel |-> "unknown", message |-> <<"Unknown vital type">>]

assess_vital_risk(vital_type, statistics, anomalies, trend) ==
    IF vital_type \notin DOMAIN normal_ranges
    THEN unknown_vital_result
    ELSE IF "mean" \notin DOMAIN statistics THEN Raise("KeyError")
    ELSE LET normal_range == normal_ranges[vital_type]
             mean_value == statistics.mean
             base == deviation_level(vital_type, mean_value)
             mid == <<normal_range.min[1] * normal_range.max[2]
                        + normal_range.max[1] * normal_range.min[2],
                      2 * normal_range.min[2] * normal_range.max[2]>>
         IN  [raised |-> FALSE,
              riskLevel |-> escalate(base[1], Len(anomalies)),
              message |->
                    <<base[2]>>
                 \o (IF Len(anomalies) > 2 THEN <<"anomalies detected">> ELSE <<>>)
                 \o (IF trend = "increasing" /\ QLt(normal_range.max, mean_value)
                     THEN <<"increasing trend">>
                     ELSE IF trend = "decreasing" /\ QLt(mean_value, normal_range.min)
                     THEN <<"decreasing trend">>
                     ELSE <<>>),
              normalRange |-> normal_range,
              averageValue |-> mean_value,
              deviation |-> QAbs(<<mean_value[1] * mid[2] - mid[1] * mean_value[2],
                                   mean_value[2] * mid[2]>>)]

-----------------------------------------------------------------------------
(* VitalsAnalyzer.analyze_trend *)

\* a dict without keys
EmptyDict == [k \in {} |-> 0]

empty_analysis_low ==
    [raised |-> FALSE,
     statistics |-> EmptyDict,
     trend |-> "no_data",
     anomalies |-> <<>>,
     forecast |-> <<>>,
     riskAssessment |-> [riskLevel |-> "low", message |-> <<"No data available">>]]

empty_analysis ==
    [raised |-> FALSE,
     statistics |-> EmptyDict,
     trend |-> "no_data",
     anomalies |-> <<>>,
     forecast |-> <<>>,
     riskAssessment |-> [riskLevel |-> "unknown", message |-> <<"No data available">>]]

\* df.sort_values("timestamp") for pairwise distinct timestamps
sort_by_timestamp(vitals) ==
    LET n == Len(vitals)
        rank(i) == Cardinality({j \in 1..n :
                        Val(vitals[j].timestamp) < Val(vitals[i].timestamp)}) + 1
    IN  [k \in 1..n |-> vitals[CHOOSE i \in 1..n : rank(i) = k]]

analyze_trend_unsorted(vitals, vital_type, days) ==
    IF vitals = <<>> THEN empty_analysis
    ELSE LET df == vitals
             values == ValuesOf(df)
             statistics == calculate_statistics(values)
             trend == determine_trend(values, [i \in 1..Len(df) |-> Val(df[i].timestamp)])
             anomalies == detect_anomalies(df)
             risk_assessment == assess_vital_risk(vital_type, statistics, anomalies, trend)
         IN  IF risk_assessment.raised THEN risk_assessment
             ELSE [raised |-> FALSE,
                   statistics |-> statistics,
                   trend |-> trend,
                   anomalies |-> anomalies,
                   forecast |-> generate_forecast(values, 3),
                   riskAssessment |-> risk_assessment]

analyze_trend(vitals, vital_type, days) ==
    IF vitals = <<>> THEN empty_analysis
    ELSE LET df == sort_by_timestamp(vitals)
             values == ValuesOf(df)
             statistics == calculate_statistics(values)
             trend == determine_trend(values, [i \in 1..Len(df) |-> Val(df[i].timestamp)])
             anomalies == detect_anomalies(df)
             risk_assessment == assess_vital_risk(vital_type, statistics, anomalies, trend)
         IN  IF risk_assessment.raised THEN risk_assessment
             ELSE [raised |-> FALSE,
                   statistics |-> statistics,
                   trend |-> trend,
                   anomalies |-> anomalies,
                   forecast |-> generate_forecast(values, 3),
                   riskAssessment |-> risk_assessment]

-----------------------------------------------------------------------------
(* AnomalyDetector.detect_multivariate_anomalies *)

\* a DataFrame is a function from its column names to columns of one length
multivariate_anomaly ==
    [type |-> "multivariate",
     vitals |-> <<"heartRate", "oxygenSaturation">>,
     severity |-> "high",
     description |-> "High heart rate with low oxygen saturation",
     recommendation |-> "Immediate medical attention recommended"]

detect_multivariate_anomalies_per_row(vitals_data) ==
    IF "heartRate" \in DOMAIN vitals_data /\ "oxygenSaturation" \in DOMAIN vitals_data
    THEN LET hr == vitals_data["heartRate"]
             o2 == vitals_data["oxygenSaturation"]
             F[i \in 0..Len(hr)] ==
                IF i = 0 THEN <<>>
                ELSE F[i - 1] \o (IF hr[i] > 100 /\ o2[i] < 92
                                  THEN <<multivariate_anomaly>> ELSE <<>>)
         IN  F[Len(hr)]
    ELSE <<>>

detect_multivariate_anomalies(vitals_data) ==
    IF "heartRate" \in DOMAIN vitals_data /\ "oxygenSaturation" \in DOMAIN vitals_data
    THEN LET hr == vitals_data["heartRate"]
             o2 == vitals_data["oxygenSaturation"]
             concerning == [i \in 1..Len(hr) |-> hr[i] > 100 /\ o2[i] < 92]
         IN  IF \E i \in 1..Len(hr) : concerning[i]
             THEN <<multivariate_anomaly>>
             ELSE <<>>
    ELSE <<>>

-----------------------------------------------------------------------------
(* The module-level instances and the methods as they use them *)

\* RiskPredictor.__init__ without model files on disk: load_model falls back
\* to create_default_model; the scaler stays unfitted
RiskPredictor_init(model_name) ==
    [model_name |-> model_name,
     model |-> "RandomForestClassifier",
     scaler |-> "StandardScaler",
     model_path |-> <<model_name, ".joblib">>,
     scaler_path |-> <<model_name, "_scaler.joblib">>]

GeneralRiskPredictor_init ==
    [heart_predictor |-> RiskPredictor_init("heart_disease"),
     diabetes_predictor |-> RiskPredictor_init("diabetes"),
     stroke_predictor |-> RiskPredictor_init("stroke")]

VitalsAnalyzer_init == [scaler |-> "StandardScaler"]

AnomalyDetector_init == EmptyDict

\* predictions.py:27-31 and anomalies.py:11
module_instances ==
    [general_predictor |-> GeneralRiskPredictor_init,
     heart_predictor |-> RiskPredictor_init("heart_disease"),
     diabetes_predictor |-> RiskPredictor_init("diabetes"),
     stroke_predictor |-> RiskPredictor_init("stroke"),
     vitals_analyzer |-> VitalsAnalyzer_init,
     anomaly_detector |-> AnomalyDetector_init]

\* a method call: the instance as the call leaves it, and what it returns
Leaves(self, result) == [self |-> self, result |-> result]

Heart_predict_on_refitting(self, data) ==
    Leaves([self EXCEPT !.scaler = "fitted"],
           IF self.scaler = "fitted" THEN Raise("ValueError") ELSE Heart_predict(data))

\* HeartDiseasePredictor.predict reads and writes no field of self
Heart_predict_on(self, data) == Leaves(self, Heart_predict(data))

Diabetes_predict_on(self, data) == Leaves(self, Diabetes_predict(data))

Stroke_predict_on(self, data) == Leaves(self, Stroke_predict(data))

\* GeneralRiskPredictor.predict_comprehensive_risk calls the three predictors
\* it holds, in this order, and self.heart_predictor.determine_risk_level
predict_comprehensive_risk_on(self, patient_data, vitals_data) ==
    LET h == Heart_predict_on(self.heart_predictor,
                              assess_heart_data(patient_data, vitals_data))
        d == Diabetes_predict_on(self.diabetes_predictor,
                                 assess_diabetes_data(patient_data, vitals_data))
        s == IF assess_stroke_raises(patient_data)
             THEN Leaves(self.stroke_predictor, Raise("TypeError"))
             ELSE Stroke_predict_on(self.stroke_predictor,
                                    assess_stroke_data(patient_data, vitals_data))
    IN  IF h.result.raised THEN Leaves([self EXCEPT !.heart_predictor = h.self], h.result)
        ELSE IF d.result.raised
        THEN Leaves([self EXCEPT !.heart_predictor = h.self,
                                 !.diabetes_predictor = d.self], d.result)
        ELSE Leaves([heart_predictor |-> h.self,
                     diabetes_predictor |-> d.self,
                     stroke_predictor |-> s.self],
                    IF s.result.raised THEN s.result
                    ELSE combine_risks(h.result, d.result, s.result))

analyze_trend_on_refitting(self, vitals, vital_type, days) ==
    Leaves([self EXCEPT !.scaler = "fitted"],
           IF self.scaler = "fitted" THEN empty_analysis
           ELSE analyze_trend(vitals, vital_type, days))

\* VitalsAnalyzer.analyze_trend never touches self.scaler
analyze_trend_on(self, vitals, vital_type, days) ==
    Leaves(self, analyze_trend(vitals, vital_type, days))

detect_sudden_changes_on(self, values, timestamps, threshold) ==
    Leaves(self, detect_sudden_changes(values, timestamps, threshold))

detect_multivariate_anomalies_on(self, vitals_data) ==
    Leaves(self, detect_multivariate_anomalies(vitals_data))

\* the handler of a request calls one method of one module-level instance
call_method(insts, method, arguments) ==
    LET done(name, out) == [instances |-> [insts EXCEPT ![name] = out.self],
                            result |-> out.result]
    IN  CASE method = "heart_predict" ->
                done("heart_predictor",
                     Heart_predict_on(insts.heart_predictor, arguments[1]))
          [] method = "diabetes_predict" ->
                done("diabetes_predictor",
                     Diabetes_predict_on(insts.diabetes_predictor, arguments[1]))
          [] method = "stroke_predict" ->
                done("stroke_predictor",
                     Stroke_predict_on(insts.stroke_predictor, arguments[1]))
          [] method = "predict_comprehensive_risk" ->
                done("general_predictor",
                     predict_comprehensive_risk_on(insts.general_predictor,
                                                   arguments[1], arguments[2]))
          [] method = "analyze_trend" ->
                done("vitals_analyzer",
                     analyze_trend_on(insts.vitals_analyzer,
                                      arguments[1], arguments[2], 7))
          [] method = "detect_sudden_changes" ->
                done("anomaly_detector",
                     detect_sudden_changes_on(insts.anomaly_detector,
                                              arguments[1], arguments[2], arguments[3]))
          [] method = "detect_multivariate_anomalies" ->
                done("anomaly_detector",
                     detect_multivariate_anomalies_on(insts.anomaly_detector,
                                                      arguments[1]))

\* a slot that serves no request
NoRequest == [pc |-> "none"]

-----------------------------------------------------------------------------
(* Inputs *)

\* Restrict(f, K): the dict holding only the keys K of f
Restrict(f, K) == [k \in K |-> f[k]]

Bools == {Some(TRUE), Some(FALSE)}

HeartFull ==
    [age : {None, Some(45), Some(46), Some(55), Some(56), Some(66), Some(70), Some(150)},
     restingBP : {Some(130), Some(131), Some(141), Some(150), Some(200)},
     cholesterol : {Some(200), Some(201), Some(250), Some(400)},
     fastingBloodSugar : Bools,
     exerciseInducedAngina : Bools]

DiabetesFull ==
    [bmi : {None, Some(25), Some(26), Some(31), Some(60)},
     glucoseLevel : {Some(100), Some(101), Some(127), Some(300)},
     bloodPressure : {Some(90), Some(91)},
     age : {Some(45), Some(46)}]

StrokeFull ==
    [age : {Some(55), Some(56), Some(66)},
     hypertension : Bools,
     heartDisease : Bools,
     avgGlucoseLevel : {Some(125), Some(126)},
     bmi : {None, Some(30), Some(31)},
     smokingStatus : {None, Some("never smoked"), Some("formerly smoked"), Some("smokes")}]

\* scores handed directly to the helpers of the aggregator
ScoreGrid == {k * Frac(5, 100) : k \in 0..20}
NearThresholds ==
    {t + e : t \in {risk_low_threshold, Frac(5, 10), risk_medium_threshold,
                    risk_high_threshold},
             e \in {-1, 0, 1}}
ScoreValues == ScoreGrid \cup NearThresholds
ConcernScores == NearThresholds \cup {0, One}
Levels == {"low", "medium", "high", "critical"}

\* patient profiles as the request layer or a direct caller builds them
PatientFull ==
    [age : {Some(50), Some(70)},
     bmi : {None, Some(31)},
     smokingStatus : {None, Some("smokes")},
     chronicConditions : {None, Some(<<>>), Some(<<"hypertension", "heart disease">>)}]

TypeValues ==
    {<<"bloodPressure", 110>>, <<"bloodPressure", 150>>,
     <<"bloodGlucose", 130>>, <<"heartRate", 70>>}

\* vitals lists of length n with pairwise distinct timestamps 1..n, in any order
VitalsOfLen(n) ==
    {[i \in 1..n |-> [type |-> Some(tv[i][1]), value |-> Some(tv[i][2]),
                       timestamp |-> Some(ts[i])]] :
        tv \in [1..n -> TypeValues],
        ts \in {f \in [1..n -> 1..n] : \A i, j \in 1..n : f[i] = f[j] => i = j}}

SeriesValues == {-100, 0, 100, 120, 150}
Thresholds == {Frac(2, 10), Frac(5, 10)}

\* readings of one vital sign: values and pairwise distinct timestamps
ReadingValues == {8, 24}
Perms(n) == {p \in [1..n -> 1..n] : \A i, j \in 1..n : p[i] = p[j] => i = j}
ReadingsOfLen(n) ==
    {[i \in 1..n |-> [value |-> Some(values[i]), timestamp |-> Some(p[i])]] :
        values \in [1..n -> ReadingValues], p \in Perms(n)}
VitalTypes == {"respiratoryRate", "weight"}

\* arrays handed to _calculate_statistics
StatValues == {-8, 0, 8, 16, 24}

\* series handed to _determine_trend
TrendValues == {0, 1, 2, 3, 4, 20}

\* arguments of _assess_vital_risk
AssessTypes == {"heartRate", "temperature", "weight"}
MeanValues ==
    {<<m, 1>> : m \in {30, 40, 47, 48, 53, 54, 60, 80, 100, 105, 110, 111, 120, 121, 130}}
        \cup {<<365, 10>>, <<375, 10>>, <<45, 1>>}
StatisticsMaps == {EmptyDict} \cup {[mean |-> m] : m \in MeanValues}
AnAnomaly == [severity |-> "medium"]
Trends == {"insufficient_data", "increasing", "decreasing", "stable"}

\* series of n values that are 0 but for two places
SpikeValues == {0, 1, 2}
SpikeSeries(n) ==
    IF n = 0 THEN {<<>>}
    ELSE {[i \in 1..n |-> IF i = p THEN a ELSE IF i = q THEN b ELSE 0] :
            p \in 1..n, q \in 1..n, a \in SpikeValues, b \in SpikeValues}

\* the calls that concurrent requests make
SharedCalls ==
    {<<"heart_predict", <<[age |-> Some(70)]>>>>,
     <<"heart_predict", <<[age |-> Some(50), restingBP |-> Some(150)]>>>>,
     <<"diabetes_predict", <<[bmi |-> Some(31)]>>>>,
     <<"diabetes_predict", <<[bmi |-> None]>>>>,
     <<"stroke_predict", <<[age |-> Some(70), smokingStatus |-> Some("smokes")]>>>>,
     <<"predict_comprehensive_risk",
       <<[age |-> Some(70), bmi |-> Some(31)],
         <<[type |-> Some("bloodPressure"), value |-> Some(150), timestamp |-> Some(1)]>>>>>>,
     <<"predict_comprehensive_risk", <<[age |-> Some(50)], <<>>>>>>,
     <<"predict_comprehensive_risk", <<[chronicConditions |-> None], <<>>>>>>,
     <<"stroke_predict", <<[age |-> Some(56), hypertension |-> Some(TRUE)]>>>>,
     <<"analyze_trend",
       <<<<[value |-> Some(8), timestamp |-> Some(1)],
           [value |-> Some(16), timestamp |-> Some(2)],
           [value |-> Some(24), timestamp |-> Some(3)]>>, "respiratoryRate">>>>,
     <<"analyze_trend", <<<<>>, "respiratoryRate">>>>,
     <<"detect_sudden_changes", <<<<100, 100, 150>>, <<1, 2, 3>>, Frac(2, 10)>>>>,
     <<"detect_multivariate_anomalies",
       <<[heartRate |-> <<101>>, oxygenSaturation |-> <<91>>]>>>>}

\* frames handed to detect_multivariate_anomalies
Columns == {"heartRate", "oxygenSaturation"}
FrameValues == {91, 92, 100, 101}
FramesOfLen(n) ==
    UNION {[cols -> [1..n -> FrameValues]] : cols \in SUBSET Columns}

-----------------------------------------------------------------------------
(* Actions: one per operation *)

\* the module-level instances are constructed and no request is being served
Init ==
    /\ op = "idle"
    /\ args = <<>>
    /\ ret = <<>>
    /\ instances = module_instances
    /\ requests = [r \in 1..MaxRequests |-> NoRequest]

DetermineRiskLevel ==
    /\ op = "idle"
    /\ UNCHANGED <<instances, requests>>
    /\ \E s \in ScoreValues :
            /\ op' = "determine_risk_level"
            /\ args' = <<s>>
            /\ ret' = determine_risk_level(s)

HeartPredict ==
    /\ op = "idle"
    /\ UNCHANGED <<instances, requests>>
    /\ \E f \in HeartFull : \E K \in SUBSET DOMAIN f :
            /\ op' = "heart_predict"
            /\ args' = <<Restrict(f, K)>>
            /\ ret' = Heart_predict(Restrict(f, K))

DiabetesPredict ==
    /\ op = "idle"
    /\ UNCHANGED <<instances, requests>>
    /\ \E f \in DiabetesFull : \E K \in SUBSET DOMAIN f :
            /\ op' = "diabetes_predict"
            /\ args' = <<Restrict(f, K)>>
            /\ ret' = Diabetes_predict(Restrict(f, K))

StrokePredict ==
    /\ op = "idle"
    /\ UNCHANGED <<instances, requests>>
    /\ \E f \in StrokeFull : \E K \in SUBSET DOMAIN f :
            /\ op' = "stroke_predict"
            /\ args' = <<Restrict(f, K)>>
            /\ ret' = Stroke_predict(Restrict(f, K))

PredictComprehensiveRisk ==
    /\ op = "idle"
    /\ UNCHANGED <<instances, requests>>
    /\ \E f \in PatientFull : \E K \in SUBSET DOMAIN f, n \in 0..MaxVitals :
            \E vitals \in VitalsOfLen(n) :
                /\ op' = "predict_comprehensive_risk"
                /\ args' = <<Restrict(f, K), vitals>>
                /\ ret' = predict_comprehensive_risk(Restrict(f, K), vitals)

\* lines 372-380 on three condition scores given directly
CombineRisks ==
    /\ op = "idle"
    /\ UNCHANGED <<instances, requests>>
    /\ \E h \in ScoreGrid, d \in ScoreGrid, s \in ScoreGrid :
            /\ op' = "combine_risks"
            /\ args' = <<h, d, s>>
            /\ ret' = combine_risks(
                        [score |-> h, confidence |-> Heart_confidence, factors |-> <<>>],
                        [score |-> d, confidence |-> Diabetes_confidence, factors |-> <<>>],
                        [score |-> s, confidence |-> Stroke_confidence, factors |-> <<>>])

IdentifyPrimaryConcerns ==
    /\ op = "idle"
    /\ UNCHANGED <<instances, requests>>
    /\ \E h \in ConcernScores, d \in ConcernScores, s \in ConcernScores :
            /\ op' = "identify_primary_concerns"
            /\ args' = <<h, d, s>>
            /\ ret' = identify_primary_concerns(h, d, s)

GenerateRecommendations ==
    /\ op = "idle"
    /\ UNCHANGED <<instances, requests>>
    /\ \E l \in Levels, h \in ConcernScores, d \in ConcernScores, s \in ConcernScores :
            /\ op' = "generate_recommendations"
            /\ args' = <<l, h, d, s>>
            /\ ret' = generate_recommendations(l, h, d, s)

DetectSuddenChanges ==
    /\ op = "idle"
    /\ UNCHANGED <<instances, requests>>
    /\ \E n \in 0..MaxSeries, t \in Thresholds :
            \E values \in [1..n -> SeriesValues] :
                /\ op' = "detect_sudden_changes"
                /\ args' = <<values, [i \in 1..n |-> i], t>>
                /\ ret' = detect_sudden_changes(values, [i \in 1..n |-> i], t)

\* the caller takes the result; the instances are ready for the next request
AnalyzeTrend ==
    /\ op = "idle"
    /\ UNCHANGED <<instances, requests>>
    /\ \E n \in 0..MaxReadings, vital_type \in VitalTypes :
        \E vitals \in ReadingsOfLen(n) :
            /\ op' = "analyze_trend"
            /\ args' = <<vitals, vital_type>>
            /\ ret' = analyze_trend(vitals, vital_type, 7)

CalculateStatistics ==
    /\ op = "idle"
    /\ UNCHANGED <<instances, requests>>
    /\ \E n \in 0..MaxSeries :
        \E values \in [1..n -> StatValues] :
            /\ op' = "calculate_statistics"
            /\ args' = <<values>>
            /\ ret' = calculate_statistics(values)

DetermineTrend ==
    /\ op = "idle"
    /\ UNCHANGED <<instances, requests>>
    /\ \E n \in 0..MaxTrend :
        \E values \in [1..n -> TrendValues] :
            /\ op' = "determine_trend"
            /\ args' = <<values>>
            /\ ret' = determine_trend(values, [i \in 1..n |-> i])

AssessVitalRisk ==
    /\ op = "idle"
    /\ UNCHANGED <<instances, requests>>
    /\ \E vital_type \in AssessTypes, statistics \in StatisticsMaps,
          n \in 0..MaxAnomalies, trend \in Trends :
            /\ op' = "assess_vital_risk"
            /\ args' = <<vital_type, statistics, [i \in 1..n |-> AnAnomaly], trend>>
            /\ ret' = assess_vital_risk(vital_type, statistics,
                                        [i \in 1..n |-> AnAnomaly], trend)

DetectMultivariateAnomalies ==
    /\ op = "idle"
    /\ UNCHANGED <<instances, requests>>
    /\ \E n \in 0..MaxSeries :
        \E vitals_data \in FramesOfLen(n) :
            /\ op' = "detect_multivariate_anomalies"
            /\ args' = <<vitals_data>>
            /\ ret' = detect_multivariate_anomalies(vitals_data)

\* _detect_anomalies on a frame already sorted by timestamp
DetectAnomalies ==
    /\ op = "idle"
    /\ UNCHANGED <<instances, requests>>
    /\ \E n \in 1..MaxRows :
        \E values \in SpikeSeries(n) :
            /\ op' = "detect_anomalies"
            /\ args' = <<[i \in 1..n |-> [value |-> Some(values[i]), timestamp |-> Some(i)]]>>
            /\ ret' = detect_anomalies(
                        [i \in 1..n |-> [value |-> Some(values[i]), timestamp |-> Some(i)]])

GenerateForecast ==
    /\ op = "idle"
    /\ UNCHANGED <<instances, requests>>
    /\ \E n \in 0..MaxForecast, periods \in 1..MaxPeriods :
        \E values \in SpikeSeries(n) :
            /\ op' = "generate_forecast"
            /\ args' = <<values, periods>>
            /\ ret' = generate_forecast(values, periods)

Return ==
    /\ op /= "idle"
    /\ UNCHANGED <<instances, requests>>
    /\ op' = "idle"
    /\ args' = <<>>
    /\ ret' = <<>>

\* the framework has parsed a request and queued its handler
Receive(r) ==
    /\ requests[r].pc = "none"
    /\ \E call \in SharedCalls :
            requests' = [requests EXCEPT
                            ![r] = [pc |-> "received", method |-> call[1], args |-> call[2]]]
    /\ UNCHANGED <<op, args, ret, instances>>

\* the handler runs: it has no await, so it calls the method and builds the
\* response in one step of the event loop
Handle(r) ==
    /\ requests[r].pc = "received"
    /\ LET out == call_method(instances, requests[r].method, requests[r].args)
       IN  /\ instances' = out.instances
           /\ requests' = [requests EXCEPT
                            ![r] = [pc |-> "handled", method |-> requests[r].method,
                                    args |-> requests[r].args, result |-> out.result]]
    /\ UNCHANGED <<op, args, ret>>

\* the response has been sent
Respond(r) ==
    /\ requests[r].pc = "handled"
    /\ requests' = [requests EXCEPT ![r] = NoRequest]
    /\ UNCHANGED <<op, args, ret, instances>>

NextShared ==
    \E r \in 1..MaxRequests :
        \/ Receive(r)
        \/ Handle(r)
        \/ Respond(r)

\* requests served concurrently against the module-level instances
SpecShared == Init /\ [][NextShared]_vars

Next ==
    \/ DetermineRiskLevel
    \/ HeartPredict
    \/ DiabetesPredict
    \/ StrokePredict
    \/ PredictComprehensiveRisk
    \/ CombineRisks
    \/ IdentifyPrimaryConcerns
    \/ GenerateRecommendations
    \/ DetectSuddenChanges
    \/ AnalyzeTrend
    \/ CalculateStatistics
    \/ DetermineTrend
    \/ AssessVitalRisk
    \/ DetectMultivariateAnomalies
    \/ DetectAnomalies
    \/ GenerateForecast
    \/ Return

Spec == Init /\ [][Next]_vars

-----------------------------------------------------------------------------
(* Properties *)

ScorerOps == {"heart_predict", "diabetes_predict", "stroke_predict"}

\* the names of the risk factors of a list, in order
FactorNames(factors) == [i \in 1..Len(factors) |-> factors[i].factor]

\* the three condition scores inside a comprehensive call that returned
HeartScoreOf(patient_data, vitals_data) == assess_heart_risk(patient_data, vitals_data).score
DiabetesScoreOf(patient_data, vitals_data) == assess_diabetes_risk(patient_data, vitals_data).score
StrokeScoreOf(patient_data, vitals_data) == assess_stroke_risk(patient_data, vitals_data).score

(* C1: determine_risk_level maps a score in [0,1] to LOW iff s < 0.3, MEDIUM
   iff 0.3 <= s < 0.6, HIGH iff 0.6 <= s < 0.8, CRITICAL iff s >= 0.8; a score
   equal to a threshold gets the higher level. *)
C1_RiskLevelBands ==
    op = "determine_risk_level" =>
        LET s == args[1]
        IN  /\ ret \in Levels
            /\ (ret = "low" <=> s < Frac(3, 10))
            /\ (ret = "medium" <=> Frac(3, 10) <= s /\ s < Frac(6, 10))
            /\ (ret = "high" <=> Frac(6, 10) <= s /\ s < Frac(8, 10))
            /\ (ret = "critical" <=> s >= Frac(8, 10))

C1_Witness ==
    op = "determine_risk_level" /\ args[1] = Frac(6, 10) /\ ret = "high"

(* C2: every scorer returns a score in [0,1] (a raw sum above 1.0 is truncated
   to exactly 1.0), a confidence in [0,1] and risk factors with impact in
   [0,1]; the aggregator's overall score and confidence lie in [0,1]. *)
C2_AllInUnitInterval ==
    /\ (op \in ScorerOps /\ ~ret.raised =>
            /\ 0 <= ret.score /\ ret.score <= One
            /\ 0 <= ret.confidence /\ ret.confidence <= One
            /\ \A i \in 1..Len(ret.factors) :
                    0 <= ret.factors[i].impact /\ ret.factors[i].impact <= One)
    /\ (op = "heart_predict" /\ ~ret.raised /\ Heart_sum(args[1]) > One =>
            ret.score = One)
    /\ (op = "diabetes_predict" /\ ~ret.raised /\ Diabetes_sum(args[1]) > One =>
            ret.score = One)
    /\ (op = "stroke_predict" /\ ~ret.raised /\ Stroke_sum(args[1]) > One =>
            ret.score = One)
    /\ (op \in {"predict_comprehensive_risk", "combine_risks"} /\ ~ret.raised =>
            /\ 0 <= ret.riskScore /\ ret.riskScore <= One
            /\ 0 <= ret.confidence /\ ret.confidence <= One
            /\ \A i \in 1..Len(ret.riskFactors) :
                    0 <= ret.riskFactors[i].impact /\ ret.riskFactors[i].impact <= One)

C2_Witness ==
    /\ op = "heart_predict" /\ ~ret.raised
    /\ Heart_sum(args[1]) = Frac(110, 100)
    /\ ret.score = One
    /\ Len(ret.factors) = 4

\* a profile with bmi, smokingStatus and chronicConditions given a value when
\* the key is omitted or null
WithDefaults(patient_data) ==
    LET fill(k, v) == IF Get(patient_data, k, v) = None THEN Some(v)
                      ELSE Get(patient_data, k, v)
    IN  [k \in DOMAIN patient_data \cup {"bmi", "smokingStatus", "chronicConditions"} |->
            IF k = "bmi" THEN fill(k, 25)
            ELSE IF k = "smokingStatus" THEN fill(k, "never smoked")
            ELSE IF k = "chronicConditions" THEN fill(k, <<>>)
            ELSE patient_data[k]]

(* C3: predict_comprehensive_risk returns an assessment without raising for
   every profile whose optional field (bmi, smokingStatus, chronicConditions)
   is omitted or null and for every vitals list; the missing feature is scored
   with its default (bmi 25, smokingStatus 'never smoked', no conditions). *)
C3_TotalOverMissingFields ==
    op = "predict_comprehensive_risk" =>
        /\ ~ret.raised
        /\ ret = predict_comprehensive_risk(WithDefaults(args[1]), args[2])

(* C4: the overall score is 0.4*cardio + 0.3*metabolic + 0.3*cerebro and the
   overall level is determine_risk_level of that sum; cardio 0.8, metabolic
   0.3, cerebro 0.3 give 0.50 and MEDIUM. *)
C4_WeightedSum ==
    /\ (op = "combine_risks" =>
            /\ 10 * ret.riskScore = 4 * args[1] + 3 * args[2] + 3 * args[3]
            /\ ret.riskLevel = determine_risk_level(ret.riskScore)
            /\ (args = <<Frac(8, 10), Frac(3, 10), Frac(3, 10)>> =>
                    ret.riskScore = Frac(50, 100) /\ ret.riskLevel = "medium"))
    /\ (op = "predict_comprehensive_risk" /\ ~ret.raised =>
            /\ 10 * ret.riskScore = 4 * HeartScoreOf(args[1], args[2])
                                  + 3 * DiabetesScoreOf(args[1], args[2])
                                  + 3 * StrokeScoreOf(args[1], args[2])
            /\ ret.riskLevel = determine_risk_level(ret.riskScore))

C4_Witness ==
    /\ op = "combine_risks"
    /\ args = <<Frac(8, 10), Frac(3, 10), Frac(3, 10)>>
    /\ ret.riskScore = Frac(50, 100)
    /\ ret.riskLevel = "medium"

\* the bands of the cardiovascular scorer as the claim lists them
C5_Expected(age, bp, chol, fbs, angina) ==
    Min(One,
          (IF age > 65 THEN Frac(30, 100) ELSE IF age > 55 THEN Frac(20, 100)
           ELSE IF age > 45 THEN Frac(10, 100) ELSE 0)
        + (IF bp > 140 THEN Frac(25, 100) ELSE IF bp > 130 THEN Frac(15, 100) ELSE 0)
        + (IF chol > 240 THEN Frac(20, 100) ELSE IF chol > 200 THEN Frac(10, 100) ELSE 0)
        + (IF fbs THEN Frac(15, 100) ELSE 0)
        + (IF angina THEN Frac(20, 100) ELSE 0))

C5_ExpectedFactors(age, bp, chol, angina) ==
       (IF age > 55 THEN <<"Age">> ELSE <<>>)
    \o (IF bp > 130 THEN <<"High Blood Pressure">> ELSE <<>>)
    \o (IF chol > 200 THEN <<"High Cholesterol">> ELSE <<>>)
    \o (IF angina THEN <<"Exercise-Induced Angina">> ELSE <<>>)

C5_Example ==
    [age |-> Some(70), restingBP |-> Some(150), cholesterol |-> Some(250),
     fastingBloodSugar |-> Some(TRUE), exerciseInducedAngina |-> Some(TRUE)]

(* C5: the cardiovascular score is min(1.0, age band + blood-pressure band +
   cholesterol band + 0.15 if fastingBloodSugar + 0.2 if angina), the
   confidence is 0.85 and the factors are exactly Age (age > 55), High Blood
   Pressure (restingBP > 130), High Cholesterol (cholesterol > 200),
   Exercise-Induced Angina (flag set), in that order; the example input gives
   score 1.0, confidence 0.85 and 4 factors. *)
C5_CardioScore ==
    op = "heart_predict" /\ ~ret.raised =>
        LET data == args[1]
            age == Val(Get(data, "age", 50))
            bp == Val(Get(data, "restingBP", 120))
            chol == Val(Get(data, "cholesterol", 200))
            fbs == GetOrNone(data, "fastingBloodSugar") = Some(TRUE)
            angina == GetOrNone(data, "exerciseInducedAngina") = Some(TRUE)
        IN  /\ ret.score = C5_Expected(age, bp, chol, fbs, angina)
            /\ ret.confidence = Frac(85, 100)
            /\ FactorNames(ret.factors) = C5_ExpectedFactors(age, bp, chol, angina)
            /\ (data = C5_Example =>
                    ret.score = One /\ Len(ret.factors) = 4)

C5_Witness ==
    /\ op = "heart_predict"
    /\ args[1] = C5_Example
    /\ ~ret.raised
    /\ ret.score = One
    /\ ret.confidence = Frac(85, 100)
    /\ Len(ret.factors) = 4

\* the features that add a positive contribution to the score of a scorer
Contributors(scorer, data) ==
    IF scorer = "heart_predict" THEN
          {k \in {"age"} : Val(Get(data, "age", 50)) > 45}
     \cup {k \in {"restingBP"} : Val(Get(data, "restingBP", 120)) > 130}
     \cup {k \in {"cholesterol"} : Val(Get(data, "cholesterol", 200)) > 200}
     \cup {k \in {"fastingBloodSugar", "exerciseInducedAngina"} :
                GetOrNone(data, k) = Some(TRUE)}
    ELSE IF scorer = "diabetes_predict" THEN
          {k \in {"bmi"} : Val(Get(data, "bmi", 25)) > 25}
     \cup {k \in {"glucoseLevel"} : Val(Get(data, "glucoseLevel", 100)) > 100}
     \cup {k \in {"bloodPressure"} : Val(Get(data, "bloodPressure", 80)) > 90}
     \cup {k \in {"age"} : Val(Get(data, "age", 40)) > 45}
    ELSE
          {k \in {"age"} : Val(Get(data, "age", 50)) > 55}
     \cup {k \in {"hypertension", "heartDisease"} : GetOrNone(data, k) = Some(TRUE)}
     \cup {k \in {"avgGlucoseLevel"} : Val(Get(data, "avgGlucoseLevel", 100)) > 125}
     \cup {k \in {"bmi"} : Val(Get(data, "bmi", 25)) > 30}
     \cup {k \in {"smokingStatus"} :
                GetOrNone(data, k) \in {Some("formerly smoked"), Some("smokes")}}

\* the conditions under which the amended claim promises a RiskFactor
ReportedContributors(scorer, data) ==
    IF scorer = "heart_predict" THEN
          {k \in {"age"} : Val(Get(data, "age", 50)) > 55}
     \cup {k \in {"restingBP"} : Val(Get(data, "restingBP", 120)) > 130}
     \cup {k \in {"cholesterol"} : Val(Get(data, "cholesterol", 200)) > 200}
     \cup {k \in {"exerciseInducedAngina"} : GetOrNone(data, k) = Some(TRUE)}
    ELSE IF scorer = "diabetes_predict" THEN
          {k \in {"bmi"} : Val(Get(data, "bmi", 25)) > 25}
     \cup {k \in {"glucoseLevel"} : Val(Get(data, "glucoseLevel", 100)) > 100}
    ELSE
          {k \in {"hypertension", "heartDisease"} : GetOrNone(data, k) = Some(TRUE)}
     \cup {k \in {"smokingStatus"} :
                GetOrNone(data, k) \in {Some("formerly smoked"), Some("smokes")}}

\* the feature a risk factor is about
FeatureOfFactor(scorer, name) ==
    CASE name = "Age" -> "age"
      [] name = "High Blood Pressure" -> "restingBP"
      [] name = "High Cholesterol" -> "cholesterol"
      [] name = "Exercise-Induced Angina" -> "exerciseInducedAngina"
      [] name = "Elevated BMI" -> "bmi"
      [] name = "Elevated Glucose" -> "glucoseLevel"
      [] name = "Hypertension" -> "hypertension"
      [] name = "Heart Disease" -> "heartDisease"
      [] name = "Smoking" -> "smokingStatus"

ListedFeatures(scorer, factors) ==
    {FeatureOfFactor(scorer, factors[i].factor) : i \in 1..Len(factors)}

(* C6 as stated: in each scorer, every feature that adds a positive
   contribution to the score has a RiskFactor in the returned list. *)
C6_EveryContributorListed ==
    op \in ScorerOps /\ ~ret.raised =>
        Contributors(op, args[1]) \subseteq ListedFeatures(op, ret.factors)

(* C6 amended: every returned RiskFactor belongs to a feature that adds a
   positive contribution, and a RiskFactor is returned exactly for age > 55,
   restingBP > 130, cholesterol > 200, exerciseInducedAngina (heart), bmi > 25,
   glucoseLevel > 100 (diabetes), hypertension, heartDisease, smoking
   (stroke); the other contributions have no RiskFactor. *)
C6_ListedAreContributors ==
    op \in ScorerOps /\ ~ret.raised =>
        /\ ListedFeatures(op, ret.factors) \subseteq Contributors(op, args[1])
        /\ ListedFeatures(op, ret.factors) = ReportedContributors(op, args[1])
        /\ Len(ret.factors) = Cardinality(ReportedContributors(op, args[1]))

C6_Witness ==
    /\ op = "stroke_predict" /\ ~ret.raised
    /\ "smokingStatus" \in ListedFeatures(op, ret.factors)
    /\ "bmi" \in Contributors(op, args[1])
    /\ "bmi" \notin ListedFeatures(op, ret.factors)

\* the value of the reading of a type with the greatest timestamp
MostRecent(vitals_data, vital_type, default) ==
    LET hits == {i \in 1..Len(vitals_data) : vitals_data[i].type = Some(vital_type)}
    IN  IF hits = {} THEN default
        ELSE LET last == CHOOSE i \in hits : \A j \in hits :
                            Val(vitals_data[j].timestamp) <= Val(vitals_data[i].timestamp)
             IN  Val(vitals_data[last].value)

(* C7: for bloodPressure, heartRate and bloodGlucose the feature fed to the
   condition scorers is the value of the reading of that type with the
   greatest timestamp, and the default only when no such reading is present. *)
C7_FeedsMostRecentReading ==
    op = "predict_comprehensive_risk" =>
        LET p == args[1]
            v == args[2]
        IN  /\ assess_heart_data(p, v).restingBP = Some(MostRecent(v, "bloodPressure", 120))
            /\ assess_heart_data(p, v).maxHeartRate = Some(MostRecent(v, "heartRate", 150))
            /\ assess_diabetes_data(p, v).glucoseLevel = Some(MostRecent(v, "bloodGlucose", 100))
            /\ assess_diabetes_data(p, v).bloodPressure = Some(MostRecent(v, "bloodPressure", 80))
            /\ (~assess_stroke_raises(p) =>
                    assess_stroke_data(p, v).avgGlucoseLevel
                        = Some(MostRecent(v, "bloodGlucose", 100)))

\* the concerns the claim prescribes for three condition scores
C8_Expected(h, d, s) ==
       (IF h > Frac(6, 10) THEN <<"Elevated cardiovascular disease risk">> ELSE <<>>)
    \o (IF d > Frac(6, 10) THEN <<"High diabetes risk">> ELSE <<>>)
    \o (IF s > Frac(6, 10) THEN <<"Increased stroke risk">> ELSE <<>>)

C8_Holds(concerns, h, d, s) ==
    LET none == h <= Frac(6, 10) /\ d <= Frac(6, 10) /\ s <= Frac(6, 10)
    IN  /\ Len(concerns) >= 1
        /\ (~none => concerns = C8_Expected(h, d, s))
        /\ (InList("Overall health status is good", concerns) <=> none)
        /\ (none => concerns = <<"Overall health status is good">>)

(* C8: primaryConcerns is never empty; it holds one message per condition
   whose score is strictly greater than 0.6, in the order cardiovascular,
   diabetes, stroke; 'Overall health status is good' is present iff no score
   exceeds 0.6, and then it is the only entry. *)
C8_PrimaryConcerns ==
    /\ (op = "identify_primary_concerns" =>
            C8_Holds(ret, args[1], args[2], args[3]))
    /\ (op = "predict_comprehensive_risk" /\ ~ret.raised =>
            C8_Holds(ret.primaryConcerns, HeartScoreOf(args[1], args[2]),
                     DiabetesScoreOf(args[1], args[2]), StrokeScoreOf(args[1], args[2])))

C8_Witness ==
    /\ op = "identify_primary_concerns"
    /\ args = <<Frac(6, 10), Frac(6, 10) + 1, One>>
    /\ ret = <<"High diabetes risk", "Increased stroke risk">>

C9_Holds(recs, level, h, d) ==
    LET consult == level \in {"high", "critical"}
    IN  /\ (InList("Immediate Action", recs) <=> consult)
        /\ (consult => recs[1] = "Immediate Action")
        /\ (InList("Cardiovascular Health", recs) <=> h > Frac(5, 10))
        /\ (InList("Metabolic Health", recs) <=> d > Frac(5, 10))
        /\ recs =    (IF consult THEN <<"Immediate Action">> ELSE <<>>)
                  \o (IF h > Frac(5, 10) THEN <<"Cardiovascular Health">> ELSE <<>>)
                  \o (IF d > Frac(5, 10) THEN <<"Metabolic Health">> ELSE <<>>)

(* C9: the recommendations contain 'Immediate Action', first, iff the overall
   level is HIGH or CRITICAL; 'Cardiovascular Health' iff the cardio score >
   0.5; 'Metabolic Health' iff the metabolic score > 0.5; independently of
   each other, always in that order; the stroke score adds nothing. *)
C9_Recommendations ==
    /\ (op = "generate_recommendations" =>
            C9_Holds(ret, args[1], args[2], args[3]))
    /\ (op = "predict_comprehensive_risk" /\ ~ret.raised =>
            C9_Holds(ret.recommendations, ret.riskLevel,
                     HeartScoreOf(args[1], args[2]), DiabetesScoreOf(args[1], args[2])))

C9_Witness ==
    /\ op = "generate_recommendations"
    /\ args = <<"critical", Frac(5, 10) + 1, Frac(5, 10) + 1, 0>>
    /\ ret = <<"Immediate Action", "Cardiovascular Health", "Metabolic Health">>

(* C10: detect_sudden_changes never reports a change for a consecutive pair
   whose previous value is exactly 0, and never returns an entry with a
   non-finite change_percent. *)
C10_ZeroPreviousNotReported ==
    op = "detect_sudden_changes" =>
        \A i \in 1..Len(ret) :
            /\ ret[i].previous_value /= 0
            /\ IsFinite(ret[i].change_percent)

\* |cur - prev| / prev > t/One as a ratio of real numbers; a previous value
\* of 0 has no ratio
RealRatioGt(cur, prev, t) ==
    /\ prev /= 0
    /\ IF prev > 0 THEN Abs(cur - prev) * One > t * prev
                   ELSE Abs(cur - prev) * One < t * prev

(* C11: detect_sudden_changes returns, in index order, one entry for exactly
   those positions whose relative change |v[i]-v[i-1]| / v[i-1] is strictly
   above the threshold; change_percent is the ratio times 100 and severity is
   'high' iff the ratio is above 0.3, else 'medium'; fewer than 2 values give
   no entries. *)
C11_ExactlyAboveThreshold ==
    op = "detect_sudden_changes" =>
        LET values == args[1]
            timestamps == args[2]
            threshold == args[3]
            flagged == {i \in 2..Len(values) :
                            RealRatioGt(values[i], values[i - 1], threshold)}
        IN  /\ Len(ret) = Cardinality(flagged)
            /\ \A k \in 1..Len(ret) :
                \E i \in flagged :
                    /\ Cardinality({j \in flagged : j < i}) = k - 1
                    /\ ret[k].timestamp = timestamps[i]
                    /\ ret[k].previous_value = values[i - 1]
                    /\ ret[k].current_value = values[i]
                    /\ ret[k].change_percent
                            = <<Abs(values[i] - values[i - 1]) * 100, values[i - 1]>>
                    /\ ret[k].severity
                            = IF RealRatioGt(values[i], values[i - 1], Frac(3, 10))
                              THEN "high" ELSE "medium"

\* the readings of an analyze_trend call all carry one value
ConstantReadings(vitals) ==
    /\ vitals /= <<>>
    /\ \A i, j \in 1..Len(vitals) : vitals[i].value = vitals[j].value

(* C12: on a series whose readings all have the same value (standard
   deviation 0) analyze_trend raises nothing and flags no reading: its
   anomalies list is empty. *)
C12_ConstantSeriesNoAnomalies ==
    (op = "analyze_trend" /\ ConstantReadings(args[1])) =>
        /\ ret.raised = FALSE
        /\ ret.anomalies = <<>>

C12_Witness ==
    /\ op = "analyze_trend"
    /\ Len(args[1]) >= 3
    /\ ConstantReadings(args[1])
    /\ ret.statistics.std_squared[1] = 0
    /\ ret.anomalies = <<>>

(* C13: analyze_trend on an empty series raises nothing and returns the fixed
   no-data result: statistics {}, trend 'no_data', anomalies [], forecast []
   and riskAssessment.riskLevel 'unknown'. *)
C13_EmptySeriesNoData ==
    (op = "analyze_trend" /\ args[1] = <<>>) =>
        /\ ret.raised = FALSE
        /\ DOMAIN ret.statistics = {}
        /\ ret.trend = "no_data"
        /\ ret.anomalies = <<>>
        /\ ret.forecast = <<>>
        /\ ret.riskAssessment.riskLevel = "unknown"

C13_Witness ==
    /\ op = "analyze_trend"
    /\ args[1] = <<>>
    /\ ret.trend = "no_data"

StatisticsKeys ==
    {"mean", "median", "std_squared", "min", "max", "q25", "q75", "count",
     "variance", "coefficient_of_variation_squared"}

(* C14: analyze_trend on 1 or 2 readings returns trend 'insufficient_data'
   and an empty forecast with the statistics filled in; on 3 or more readings
   the trend is one of 'increasing', 'decreasing', 'stable'. *)
C14_TrendByCount ==
    (op = "analyze_trend" /\ args[1] /= <<>>) =>
        /\ ret.raised = FALSE
        /\ Len(args[1]) <= 2 =>
            /\ ret.trend = "insufficient_data"
            /\ ret.forecast = <<>>
            /\ DOMAIN ret.statistics = StatisticsKeys
            /\ ret.statistics.count = Len(args[1])
        /\ Len(args[1]) >= 3 =>
            ret.trend \in {"increasing", "decreasing", "stable"}

C14_Witness ==
    /\ op = "analyze_trend"
    /\ Len(args[1]) = 2
    /\ ret.trend = "insufficient_data"
    /\ ret.forecast = <<>>
    /\ ret.statistics.count = 2

StrictlyIncreasing(values) == \A i \in 1..Len(values) - 1 : values[i] < values[i + 1]
EqualSteps(values) ==
    \A i \in 1..Len(values) - 1 : values[i + 1] - values[i] = values[2] - values[1]
ConstantSeries(values) == \A i \in 1..Len(values) : values[i] = values[1]

\* the trend of a series of 3 or more points by the significance rule
C15_BySignificance ==
    LET values == args[1]
    IN  /\ linregress_p_above_005(values) => ret = "stable"
        /\ ~linregress_p_above_005(values) =>
                ret = IF Sxy(values) > 0 THEN "increasing"
                      ELSE IF Sxy(values) < 0 THEN "decreasing" ELSE "stable"
        /\ ConstantSeries(values) => ret = "stable"

(* C15 as stated: for 3 or more points _determine_trend reports 'stable'
   whenever the slope's p-value is above 0.05 and otherwise the sign of the
   slope; every strictly increasing series of at least 5 points reports
   'increasing' and every constant series reports 'stable'. *)
C15_StrictlyIncreasingIsIncreasing ==
    (op = "determine_trend" /\ Len(args[1]) >= 3) =>
        /\ C15_BySignificance
        /\ (Len(args[1]) >= 5 /\ StrictlyIncreasing(args[1])) => ret = "increasing"

(* C15 amended: for 3 or more points _determine_trend reports 'stable'
   whenever the slope's p-value is above 0.05 and otherwise the sign of the
   slope; every series rising by one fixed positive step reports
   'increasing', every constant series reports 'stable', and a strictly
   increasing series reports 'increasing' or 'stable', never 'decreasing'. *)
C15_TrendBySignificance ==
    (op = "determine_trend" /\ Len(args[1]) >= 3) =>
        /\ C15_BySignificance
        /\ (StrictlyIncreasing(args[1]) /\ EqualSteps(args[1])) => ret = "increasing"
        /\ StrictlyIncreasing(args[1]) => ret \in {"increasing", "stable"}

C15_Witness ==
    /\ op = "determine_trend"
    /\ Len(args[1]) >= 5
    /\ StrictlyIncreasing(args[1])
    /\ ~EqualSteps(args[1])
    /\ linregress_p_above_005(args[1])
    /\ ret = "stable"

AssessesKnownType ==
    /\ op = "assess_vital_risk"
    /\ args[1] \in DOMAIN normal_ranges
    /\ "mean" \in DOMAIN args[2]

\* the percent deviation of the mean from the nearest boundary of the normal
\* range is above k; a mean inside the range deviates from neither boundary
DeviationAbove(mean, range, k) ==
    IF mean[1] * range.min[2] < range.min[1] * mean[2]
    THEN (range.min[1] * mean[2] - mean[1] * range.min[2]) * 100
            > k * range.min[1] * mean[2]
    ELSE IF mean[1] * range.max[2] > range.max[1] * mean[2]
    THEN (mean[1] * range.max[2] - range.max[1] * mean[2]) * 100
            > k * range.max[1] * mean[2]
    ELSE FALSE

DeviationLevel(mean, range) ==
    IF DeviationAbove(mean, range, 20) THEN "high"
    ELSE IF DeviationAbove(mean, range, 10) THEN "medium"
    ELSE "low"

(* C16: for a known vital type and at most 2 anomalies the risk level comes
   from the percent deviation of the mean from the nearest boundary of the
   normal range: 'high' iff it is above 20, 'medium' iff it is above 10 and
   at most 20, 'low' otherwise (a mean inside the range included). *)
C16_LevelFromDeviation ==
    (AssessesKnownType /\ Len(args[3]) <= 2) =>
        /\ ret.raised = FALSE
        /\ ret.riskLevel = DeviationLevel(args[2].mean, normal_ranges[args[1]])

C16_Witness ==
    /\ op = "assess_vital_risk"
    /\ args[1] = "heartRate"
    /\ args[2] = [mean |-> <<130, 1>>]
    /\ args[3] = <<>>
    /\ ret.riskLevel = "high"

LevelRank(level) == CASE level = "low" -> 1 [] level = "medium" -> 2 [] level = "high" -> 3

(* C17: the anomaly count only raises the level: more than 5 anomalies give
   'high'; 3 to 5 turn 'low' into 'medium' and leave 'medium' and 'high'
   alone; 0 to 2 leave the level alone; the final level is never below the
   level from the deviation. *)
C17_AnomaliesOnlyRaise ==
    AssessesKnownType =>
        LET base == DeviationLevel(args[2].mean, normal_ranges[args[1]])
            n == Len(args[3])
        IN  /\ n > 5 => ret.riskLevel = "high"
            /\ (n >= 3 /\ n <= 5) =>
                    ret.riskLevel = IF base = "low" THEN "medium" ELSE base
            /\ n <= 2 => ret.riskLevel = base
            /\ LevelRank(ret.riskLevel) >= LevelRank(base)

C17_Witness ==
    /\ AssessesKnownType
    /\ Len(args[3]) = 4
    /\ DeviationLevel(args[2].mean, normal_ranges[args[1]]) = "high"
    /\ ret.riskLevel = "high"

(* C18: an unknown vital type gives riskLevel 'unknown' as a normal result,
   whatever the statistics map, the anomaly list and the trend are; the
   anomaly count never escalates it, also inside analyze_trend. *)
C18_UnknownTypeUnknownLevel ==
    /\ (op = "assess_vital_risk" /\ args[1] \notin DOMAIN normal_ranges) =>
            /\ ret.raised = FALSE
            /\ ret.riskLevel = "unknown"
    /\ (op = "analyze_trend" /\ args[2] \notin DOMAIN normal_ranges) =>
            /\ ret.raised = FALSE
            /\ ret.riskAssessment.riskLevel = "unknown"

C18_Witness ==
    /\ op = "assess_vital_risk"
    /\ args[1] = "weight"
    /\ args[2] = EmptyDict
    /\ Len(args[3]) = 6
    /\ args[4] = "increasing"
    /\ ret.riskLevel = "unknown"

\* the rows of a frame with a high heart rate and a low oxygen saturation
ConcerningRows(vitals_data) ==
    IF {"heartRate", "oxygenSaturation"} \subseteq DOMAIN vitals_data
    THEN {i \in 1..Len(vitals_data["heartRate"]) :
            /\ vitals_data["heartRate"][i] > 100
            /\ vitals_data["oxygenSaturation"][i] < 92}
    ELSE {}

(* C19: detect_multivariate_anomalies returns at most one anomaly; it returns
   exactly one, of severity 'high' and naming heartRate and oxygenSaturation,
   iff both columns are present and some row has heartRate > 100 together
   with oxygenSaturation < 92; otherwise it returns the empty list. *)
C19_OneAggregateAnomaly ==
    op = "detect_multivariate_anomalies" =>
        /\ Len(ret) <= 1
        /\ Len(ret) = 1 <=> ConcerningRows(args[1]) /= {}
        /\ Len(ret) = 1 =>
            /\ ret[1].severity = "high"
            /\ ret[1].vitals = <<"heartRate", "oxygenSaturation">>

C19_Witness ==
    /\ op = "detect_multivariate_anomalies"
    /\ Cardinality(ConcerningRows(args[1])) >= 2
    /\ Len(ret) = 1
    /\ ret[1].severity = "high"

(* C20: for every non-empty numeric series _calculate_statistics returns
   min <= median <= max and a count equal to the length of the series. *)
C20_MedianBetweenMinAndMax ==
    (op = "calculate_statistics" /\ args[1] /= <<>>) =>
        /\ QLe(ret.min, ret.median)
        /\ QLe(ret.median, ret.max)
        /\ ret.count = Len(args[1])

C20_Witness ==
    /\ op = "calculate_statistics"
    /\ Len(args[1]) = 2
    /\ QLt(ret.min, ret.median)
    /\ QLt(ret.median, ret.max)
    /\ ret.count = 2

\* a comprehensive assessment returned a result
Assessed == op = "predict_comprehensive_risk" /\ ~ret.raised

StatusGood == InList("Overall health status is good", ret.primaryConcerns)

(* C25 as stated: whenever predict_comprehensive_risk returns the primary
   concern 'Overall health status is good', its recommendations list is
   empty. *)
C25_GoodStatusNoRecommendations ==
    (Assessed /\ StatusGood) => ret.recommendations = <<>>

(* C25 amended: whenever predict_comprehensive_risk returns 'Overall health
   status is good', the level is LOW or MEDIUM and no 'Immediate Action' is
   recommended; the recommendations are empty iff neither the cardiovascular
   nor the metabolic score is above 0.5. *)
C25_GoodStatusNoImmediateAction ==
    (Assessed /\ StatusGood) =>
        /\ ret.riskLevel \in {"low", "medium"}
        /\ ~InList("Immediate Action", ret.recommendations)
        /\ ret.recommendations = <<>> <=>
                /\ HeartScoreOf(args[1], args[2]) <= Frac(5, 10)
                /\ DiabetesScoreOf(args[1], args[2]) <= Frac(5, 10)

C25_Witness ==
    /\ Assessed
    /\ StatusGood
    /\ ret.riskLevel = "medium"
    /\ ret.recommendations = <<"Cardiovascular Health">>

(* C26: whenever _assess_vital_risk returns a message that begins 'Vital
   signs within normal range', the mean lies inside the normal range
   [min, max] of the vital type. *)
C26_WithinRangeMessageMeansInside ==
    (AssessesKnownType /\ ret.message[1] = "Vital signs within normal range") =>
        /\ QLe(normal_ranges[args[1]].min, args[2].mean)
        /\ QLe(args[2].mean, normal_ranges[args[1]].max)

(* C27: through predict_comprehensive_risk the cardiovascular score never
   exceeds 0.55, the concern 'Elevated cardiovascular disease risk' is never
   emitted, and the overall score, as a real number, never exceeds 0.82. *)
C27_CardioCappedInAssessment ==
    Assessed =>
        /\ HeartScoreOf(args[1], args[2]) <= Frac(55, 100)
        /\ ~InList("Elevated cardiovascular disease risk", ret.primaryConcerns)
        /\ ret.riskScore <= Frac(82, 100)

C27_Witness ==
    /\ Assessed
    /\ HeartScoreOf(args[1], args[2]) = Frac(55, 100)
    /\ ret.riskScore = Frac(82, 100)

(* C28: whenever predict_comprehensive_risk returns the level HIGH or
   CRITICAL, primaryConcerns names diabetes or stroke and does not contain
   'Overall health status is good'. *)
C28_HighLevelNamesCondition ==
    (Assessed /\ ret.riskLevel \in {"high", "critical"}) =>
        /\ \/ InList("High diabetes risk", ret.primaryConcerns)
           \/ InList("Increased stroke risk", ret.primaryConcerns)
        /\ ~StatusGood

C28_Witness ==
    /\ Assessed
    /\ ret.riskLevel = "critical"
    /\ ret.primaryConcerns = <<"High diabetes risk", "Increased stroke risk">>

\* the readings an anomaly detection ran on, in the order they were supplied,
\* and the anomalies it returned
DetectsAnomalies ==
    \/ op = "detect_anomalies"
    \/ op = "analyze_trend" /\ args[1] /= <<>> /\ ~ret.raised
ReadingsIn == args[1]
AnomaliesOut == IF op = "detect_anomalies" THEN ret ELSE ret.anomalies

\* |value - mean| / std > k for the population std of the whole series:
\* (n*value - sum)^2 > k^2 * (n*sum of squares - sum^2), with a positive std
ZScoreAbove(values, i, k) ==
    LET n == Len(values)
        total == SumSeq(values)
        squares == SumSeq([j \in 1..n |-> values[j] * values[j]])
    IN  /\ n * squares - total * total > 0
        /\ (n * values[i] - total) * (n * values[i] - total)
                > k * k * (n * squares - total * total)

\* a quartile in quarters of a unit
Quarters(q) == IF q[2] = 1 THEN 4 * q[1] ELSE q[1]

\* the value lies strictly outside [Q1 - 1.5*IQR, Q3 + 1.5*IQR]
OutsideIQR(values, i) ==
    LET q1 == Quarters(np_percentile(values, 1))
        q3 == Quarters(np_percentile(values, 3))
    IN  \/ 8 * values[i] < 2 * q1 - 3 * (q3 - q1)
        \/ 8 * values[i] > 2 * q3 + 3 * (q3 - q1)

(* C23: a reading is reported as an anomaly iff its z-score (population std
   of the whole series) is above 3 or its value lies strictly outside
   [Q1 - 1.5*IQR, Q3 + 1.5*IQR]; a reported anomaly has severity 'high' iff
   its z-score is above 4 and 'medium' otherwise; the anomalies are listed in
   timestamp order. *)
C23_AnomalyRule ==
    DetectsAnomalies =>
        LET values == ValuesOf(ReadingsIn)
            flagged == {i \in 1..Len(values) :
                            ZScoreAbove(values, i, 3) \/ OutsideIQR(values, i)}
            out == AnomaliesOut
        IN  /\ {<<out[k].timestamp, out[k].value, out[k].severity>> : k \in 1..Len(out)}
                = {<<Val(ReadingsIn[i].timestamp), values[i],
                     IF ZScoreAbove(values, i, 4) THEN "high" ELSE "medium">> :
                        i \in flagged}
            /\ \A k \in 1..Len(out) - 1 : out[k].timestamp < out[k + 1].timestamp

C23_Witness ==
    /\ op = "detect_anomalies"
    /\ Len(args[1]) = 18
    /\ Len(ret) = 1
    /\ ret[1].severity = "high"
    /\ ret[1].reason = <<"Z-score", "Outside IQR bounds">>

\* a forecast was made: the series, the number of periods and the points
Forecasts ==
    \/ op = "generate_forecast" /\ Len(args[1]) >= 3
    \/ op = "analyze_trend" /\ Len(args[1]) >= 3 /\ ~ret.raised
ForecastSeries ==
    IF op = "generate_forecast" THEN args[1] ELSE ValuesOf(sort_by_timestamp(args[1]))
ForecastPeriods == IF op = "generate_forecast" THEN args[2] ELSE 3
ForecastOut == IF op = "generate_forecast" THEN ret ELSE ret.forecast

\* a/b is the least-squares slope of the values over 0..n-1: the residuals
\* are orthogonal to the centred abscissas
IsLeastSquaresSlope(slope, values) ==
    LET n == Len(values)
        xc == [i \in 1..n |-> n * (i - 1) - SumSeq([j \in 1..n |-> j - 1])]
        yc == [i \in 1..n |-> n * values[i] - SumSeq(values)]
    IN  /\ slope[2] > 0
        /\ SumSeq([i \in 1..n |-> xc[i] * (slope[2] * yc[i] - slope[1] * xc[i])]) = 0

(* C24: for 3 or more values _generate_forecast returns exactly `periods`
   points numbered 1..periods in order; point k has value = (mean of the last
   min(7, n) values) + slope * k with the least-squares slope of the whole
   series, and its confidence bounds lie one population standard deviation of
   the whole series below and above the value. *)
C24_ForecastPoints ==
    Forecasts =>
        LET values == ForecastSeries
            n == Len(values)
            w == IF n < 7 THEN n ELSE 7
            recent == SumSeq([i \in 1..w |-> values[n - w + i]])
            squares == SumSeq([j \in 1..n |-> values[j] * values[j]])
            variance == <<n * squares - SumSeq(values) * SumSeq(values), n * n>>
            out == ForecastOut
        IN  /\ Len(out) = ForecastPeriods
            /\ \A k \in 1..Len(out) :
                /\ out[k].period = k
                /\ \E slope \in {linregress_slope(values)} :
                    /\ IsLeastSquaresSlope(slope, values)
                    /\ QEq(out[k].value,
                           <<recent * slope[2] + w * k * slope[1], w * slope[2]>>)
                /\ out[k].confidence_lower.value = out[k].value
                /\ out[k].confidence_lower.sign = -1
                /\ out[k].confidence_upper.value = out[k].value
                /\ out[k].confidence_upper.sign = 1
                /\ QEq(out[k].confidence_lower.std_squared, variance)
                /\ QEq(out[k].confidence_upper.std_squared, variance)
                /\ variance[1] >= 0

C24_Witness ==
    /\ op = "generate_forecast"
    /\ Len(args[1]) = 9
    /\ args[1][1] /= args[1][9]
    /\ args[2] = 3
    /\ Len(ret) = 3
    /\ ret[3].period = 3

(* C29: for a series of at most 10 readings no reading has a z-score above
   3, so every reported anomaly is due to the IQR rule alone and has severity
   'medium'; for fewer than 18 readings no anomaly has severity 'high'. *)
C29_SmallSeriesOnlyIQR ==
    DetectsAnomalies =>
        LET out == AnomaliesOut
        IN  /\ Len(ReadingsIn) <= 10 =>
                \A k \in 1..Len(out) :
                    /\ ~ZGt(out[k].deviation_squared, 3)
                    /\ out[k].reason = <<"Outside IQR bounds">>
                    /\ out[k].severity = "medium"
            /\ Len(ReadingsIn) < 18 =>
                \A k \in 1..Len(out) : out[k].severity = "medium"

C29_Witness ==
    /\ op = "detect_anomalies"
    /\ Len(args[1]) = 10
    /\ Len(ret) = 1
    /\ ret[1].reason = <<"Outside IQR bounds">>
    /\ ret[1].severity = "medium"

\* a list with its first two elements exchanged, and with its first element
\* moved to the end; the two generate every reordering
SwapFirstTwo(vitals) ==
    IF Len(vitals) < 2 THEN vitals
    ELSE <<vitals[2], vitals[1]>> \o SubSeq(vitals, 3, Len(vitals))
Rotate(vitals) ==
    IF vitals = <<>> THEN vitals ELSE Tail(vitals) \o <<vitals[1]>>

(* C30: analyze_trend does not depend on the order in which readings with
   pairwise distinct timestamps are supplied: a reordered list gives the same
   statistics, trend, anomalies, forecast and risk assessment. *)
C30_OrderIndependent ==
    op = "analyze_trend" =>
        /\ ret = analyze_trend(SwapFirstTwo(args[1]), args[2], 7)
        /\ ret = analyze_trend(Rotate(args[1]), args[2], 7)

C30_Witness ==
    /\ op = "analyze_trend"
    /\ Len(args[1]) = 4
    /\ Val(args[1][1].timestamp) = 4
    /\ Val(args[1][4].timestamp) = 1
    /\ args[1][1].value /= args[1][4].value
    /\ ret.anomalies /= <<>>
    /\ ret = analyze_trend(SwapFirstTwo(args[1]), args[2], 7)

-----------------------------------------------------------------------------
(* Requests served against the shared instances *)

Scorers ==
    {"heart_predict", "diabetes_predict", "stroke_predict",
     "predict_comprehensive_risk"}

Handled(r) == requests[r].pc = "handled"

SameCall(r1, r2) ==
    /\ Handled(r1)
    /\ Handled(r2)
    /\ requests[r1].method = requests[r2].method
    /\ requests[r1].args = requests[r2].args

\* C21: two calls of one scorer on the same instance with the same input
\* return the same result (score, confidence, risk factors, concerns and
\* recommendations), whatever other calls the instance served in between
C21_SameInputSameResult ==
    \A r1, r2 \in 1..MaxRequests :
        (/\ SameCall(r1, r2)
         /\ requests[r1].method \in Scorers)
            => requests[r1].result = requests[r2].result

\* two requests have called the same scorer with the same input, and it scored
C21_Witness ==
    /\ SameCall(1, 2)
    /\ requests[1].method = "predict_comprehensive_risk"
    /\ ~requests[1].result.raised
    /\ requests[1].result.primaryConcerns /= <<>>

\* what a call returns when it is the only one the instances ever serve
Alone(method, arguments) == call_method(module_instances, method, arguments).result

\* C22: no per-request operation writes a field of the module-level
\* instances, so every request gets the result it would get alone, however
\* the requests are interleaved
C22_NoInterference ==
    /\ instances = module_instances
    /\ \A r \in 1..MaxRequests :
            Handled(r) => requests[r].result = Alone(requests[r].method, requests[r].args)

\* a trend analysis was answered between the arrival and the handling of a
\* detection request on the other slot
C22_Witness ==
    /\ Handled(1)
    /\ requests[1].method = "analyze_trend"
    /\ requests[1].result.trend /= "no_data"
    /\ Handled(2)
    /\ requests[2].method \in {"detect_sudden_changes", "detect_multivariate_anomalies"}
    /\ requests[2].result /= <<>>


=============================================================================
